---- MODULE Spec2Model ----
(***************************************************************************)
(* Model of @reevit/react: the useReevit hook (reducer, initialize guard,  *)
(* confirm hand-off, cancel-on-close) and the ReevitCheckout component     *)
(* that drives it (selection state, effects, PSP bridge hand-off).         *)
(*                                                                         *)
(* HookSpec : the exported useReevit hook used on its own; its operations  *)
(*            may be called by the embedding application in any order.     *)
(* Spec     : the ReevitCheckout component; operations are the handlers    *)
(*            reachable from what renderContent shows, the effects, the    *)
(*            PSP bridge callbacks and the network responses.              *)
(* ResolverSpec : the provider resolver (mapAvailableProviders and the     *)
(*            providerOptions memo) applied to bounded provider lists.     *)
(* BridgeSpec : one mount of HubtelBridge: the session fetch, the         *)
(*            auto-start effect, the Hubtel modal and its callbacks.       *)
(* LiveSpec : Spec with the scheduling of React effects and of the         *)
(*            delayed-success timer as fairness conditions.                *)
(* KeySpec  : the Idempotency-Key of the requests sent by ReevitAPIClient  *)
(*            and by initialize(), over bounded clocks and random draws.   *)
(* MPesaSpec : one mount of MPesaBridge: the STK push, its answer, retry   *)
(*            and the customer's answer on the phone.                      *)
(* PollSpec : one startPolling() call of useMPesaStatusPolling.            *)
(***************************************************************************)
EXTENDS Integers, Sequences, FiniteSets, TLC

VARIABLES
    state,            \* ReevitState held by useReducer
    initializingRef,  \* initializingRef.current
    requests,         \* backend requests in flight (each holds its continuation's closure)
    nextRid,          \* serial number of the next request; create request n yields intent id n
    cfg,              \* the props / config of the session (fixed at construction)
    ui,               \* ReevitCheckout's own state (useState / useRef)
    events,           \* observation: what the last step called, dispatched, sent, invoked
    hist              \* observation: history counters and sets

vars == <<state, initializingRef, requests, nextRid, cfg, ui, events, hist>>

\* Bound on the number of backend requests (create, confirm, cancel) of one run.
MaxRequests == 2

-----------------------------------------------------------------------------
(* Values *)

Null == "null"

NoError == [code |-> "none", recoverable |-> "undefined"]
Err(code, recoverable) == [code |-> code, recoverable |-> recoverable]

NoIntent ==
    [id |-> 0, clientSecret |-> "", availableMethods |-> <<>>,
     recommendedPsp |-> "", provider |-> "", availableProviders |-> <<>>]

NoResult ==
    [paymentId |-> 0, paymentMethod |-> Null, psp |-> "", status |-> "none",
     backend_status |-> "none"]

Act(type, payload) == [type |-> type, payload |-> payload]
Ev(kind, name, arg) == [kind |-> kind, name |-> name, arg |-> arg]

SeqToSet(s) == {s[i] : i \in 1..Len(s)}

-----------------------------------------------------------------------------
(* The reducer *)

initialState ==
    [status |-> "idle", paymentIntent |-> NoIntent, selectedMethod |-> Null,
     error |-> NoError, result |-> NoResult]

\* Mutant: the first listed method is selected whenever the list is not empty.
AutoSelectedMethod_First(intent) ==
    IF Len(intent.availableMethods) >= 1 THEN intent.availableMethods[1] ELSE Null

\* INIT_SUCCESS and the initial state: availableMethods.length === 1 ? [0] : null
AutoSelectedMethod(intent) ==
    IF Len(intent.availableMethods) = 1 THEN intent.availableMethods[1] ELSE Null

\* Mutant: RESET returns to the initial state without carrying the intent over.
ResetState_DropsIntent(st) == [initialState EXCEPT !.status = "ready"]

ResetState(st) ==
    [initialState EXCEPT !.status = "ready", !.paymentIntent = st.paymentIntent]

reevitReducer(st, action) ==
    CASE action.type = "INIT_START" ->
            [st EXCEPT !.status = "loading", !.error = NoError]
      [] action.type = "INIT_SUCCESS" ->
            [st EXCEPT !.status = "ready",
                       !.paymentIntent = action.payload,
                       !.selectedMethod = AutoSelectedMethod(action.payload)]
      [] action.type = "INIT_ERROR" ->
            [st EXCEPT !.status = "failed", !.error = action.payload]
      [] action.type = "SELECT_METHOD" ->
            [st EXCEPT !.status = "method_selected", !.selectedMethod = action.payload]
      [] action.type = "PROCESS_START" ->
            [st EXCEPT !.status = "processing", !.error = NoError]
      [] action.type = "PROCESS_SUCCESS" ->
            [st EXCEPT !.status = "success", !.result = action.payload]
      [] action.type = "PROCESS_ERROR" ->
            [st EXCEPT !.status = "failed", !.error = action.payload]
      [] action.type = "RESET" -> ResetState(st)
      [] action.type = "CLOSE" -> [st EXCEPT !.status = "closed"]
      [] OTHER -> st

-----------------------------------------------------------------------------
(* Mapping a backend response to a PaymentIntent *)

\* String.prototype.toLowerCase on the provider identifiers the model uses.
ToLowerCase(p) ==
    CASE p = "Hubtel" -> "hubtel"
      [] p = "M-Pesa" -> "m-pesa"
      [] OTHER -> p

\* String.prototype.includes on (lower-cased) provider identifiers.
Includes(p, needle) ==
    CASE needle = "paystack" -> p \in {"paystack"}
      [] needle = "hubtel" -> p \in {"hubtel"}
      [] needle = "flutterwave" -> p \in {"flutterwave"}
      [] needle = "monnify" -> p \in {"monnify"}
      [] needle = "mpesa" -> p \in {"mpesa"}
      [] needle = "m-pesa" -> p \in {"m-pesa"}
      [] needle = "stripe" -> p \in {"stripe"}
      [] OTHER -> FALSE

mapProviderToPsp(provider) ==
    LET providerLower == ToLowerCase(provider) IN
    IF Includes(providerLower, "paystack") THEN "paystack"
    ELSE IF Includes(providerLower, "hubtel") THEN "hubtel"
    ELSE IF Includes(providerLower, "flutterwave") THEN "flutterwave"
    ELSE IF Includes(providerLower, "monnify") THEN "monnify"
    ELSE IF Includes(providerLower, "mpesa") \/ Includes(providerLower, "m-pesa") THEN "mpesa"
    ELSE IF Includes(providerLower, "stripe") THEN "stripe"
    ELSE "paystack"

normalizeProviderMethod(method) ==
    CASE method = "card" -> "card"
      [] method \in {"mobile_money", "momo", "mobilemoney"} -> "mobile_money"
      [] method \in {"bank", "bank_transfer", "transfer"} -> "bank_transfer"
      [] OTHER -> Null

MapSeq(s, F(_)) == [i \in 1..Len(s) |-> F(s[i])]

\* undefined (no providers) is modelled as the empty list: every reader uses `?? []`.
mapAvailableProviders(providers) ==
    LET NonNull(m) == m # Null
        MapOne(p) ==
            [provider |-> p.provider,
             methods |-> SelectSeq(MapSeq(p.methods, normalizeProviderMethod), NonNull)]
        HasMethods(p) == Len(p.methods) > 0
    IN SelectSeq(MapSeq(providers, MapOne), HasMethods)

\* config.paymentMethods || ['card', 'mobile_money'] is resolved in cfg.paymentMethods.
mapToPaymentIntent(response, config) ==
    [id |-> response.id,
     clientSecret |-> response.client_secret,
     availableMethods |-> config.paymentMethods,
     recommendedPsp |-> mapProviderToPsp(response.provider),
     provider |-> response.provider,
     availableProviders |-> mapAvailableProviders(response.available_psps)]

-----------------------------------------------------------------------------
(* The hook's operations, as transformers of the hook's world                *)
(* s = [state, initializingRef, requests, nextRid, ui, events, hist]; the   *)
(* hook never touches s.ui, which belongs to the component around it.        *)

Sys ==
    [state |-> state, initializingRef |-> initializingRef, requests |-> requests,
     nextRid |-> nextRid, ui |-> ui, events |-> <<>>, hist |-> hist]

emit(s, kind, name, arg) == [s EXCEPT !.events = Append(@, Ev(kind, name, arg))]

\* (React drops a dispatch to a component that is no longer mounted)
dispatch(s, action) ==
    emit([s EXCEPT !.state = IF s.ui.mounted THEN reevitReducer(s.state, action) ELSE @],
         "dispatch", action.type, action.payload)

callback(s, name, arg) == emit(s, "callback", name, arg)

\* fetch(): the request leaves synchronously, the continuation waits in `requests`.
send(s, kind, intent, method, provider) ==
    emit([s EXCEPT !.requests = @ \cup {[rid |-> s.nextRid, kind |-> kind,
                                          intent |-> intent, method |-> method,
                                          provider |-> provider]},
                   !.nextRid = @ + 1],
         "request", kind, [rid |-> s.nextRid, id |-> intent.id])

\* The awaited request r settles with `outcome`: its continuation resumes.
receive(s, r, outcome) ==
    emit([s EXCEPT !.requests = @ \ {r}], "response", r.kind, outcome)

\* Mutant: the guard is tested but never set when the call starts.
initialize_GuardNotSet(s0, method, provider) ==
    LET s == [emit(s0, "call", "initialize", provider) EXCEPT !.hist.called = TRUE] IN
    IF s.initializingRef
    THEN s
    ELSE LET s1 == [s EXCEPT !.hist.createSince = @ + 1]
             s2 == dispatch(s1, Act("INIT_START", ""))
         IN send(s2, "create", NoIntent, method, provider)

initialize(s0, method, provider) ==
    LET s == [emit(s0, "call", "initialize", provider) EXCEPT !.hist.called = TRUE] IN
    IF s.initializingRef
    THEN s
    ELSE LET s1 == [s EXCEPT !.initializingRef = TRUE,
                             !.hist.createSince = @ + 1]
             s2 == dispatch(s1, Act("INIT_START", ""))
         IN send(s2, "create", NoIntent, method, provider)

\* Mutant: every failed outcome, an API error result included, releases the guard.
initializeResume_ReleaseOnError(s0, r, outcome) ==
    LET s == [receive(s0, r, outcome) EXCEPT !.hist.responded = TRUE] IN
    CASE outcome.kind = "error" ->
            [callback(dispatch(s, Act("INIT_ERROR", outcome.error)), "onError", outcome.error)
                EXCEPT !.initializingRef = FALSE]
      [] outcome.kind \in {"empty", "throw"} ->
            LET error == Err("INIT_FAILED", "true")
                s1 == callback(dispatch(s, Act("INIT_ERROR", error)), "onError", error)
            IN [s1 EXCEPT !.initializingRef = FALSE,
                          !.hist.released = IF s.initializingRef THEN @ + 1 ELSE @]
      [] OTHER ->
            dispatch(s, Act("INIT_SUCCESS",
                            mapToPaymentIntent([outcome.response EXCEPT !.id = r.rid], cfg)))

\* The part of initialize after the await; outcome.kind is
\*   "error" : the request returned {error}          (lines 334-338)
\*   "empty" : the request returned neither          (lines 340-350)
\*   "throw" : fetch or mapToPaymentIntent threw     (lines 357-367)
\*   "data"  : the request returned an intent        (lines 352-356)
initializeResume(s0, r, outcome) ==
    LET s == [receive(s0, r, outcome) EXCEPT !.hist.responded = TRUE] IN
    CASE outcome.kind = "error" ->
            callback(dispatch(s, Act("INIT_ERROR", outcome.error)), "onError", outcome.error)
      [] outcome.kind = "empty" ->
            LET noDataError == Err("INIT_FAILED", "true")
                s1 == callback(dispatch(s, Act("INIT_ERROR", noDataError)), "onError", noDataError)
            IN [s1 EXCEPT !.initializingRef = FALSE,
                          !.hist.released = IF s.initializingRef THEN @ + 1 ELSE @]
      [] outcome.kind = "throw" ->
            LET error == Err("INIT_FAILED", "true")
                s1 == callback(dispatch(s, Act("INIT_ERROR", error)), "onError", error)
            IN [s1 EXCEPT !.initializingRef = FALSE,
                          !.hist.released = IF s.initializingRef THEN @ + 1 ELSE @]
      [] OTHER ->
            dispatch(s, Act("INIT_SUCCESS",
                            mapToPaymentIntent([outcome.response EXCEPT !.id = r.rid], cfg)))

selectMethod(s, method) ==
    dispatch(emit(s, "call", "selectMethod", method), Act("SELECT_METHOD", method))

ConfirmPath(intent) == IF intent.clientSecret # "" THEN "confirm-intent" ELSE "confirm"

\* Mutant: success is declared as soon as the PSP reports it, before the confirm answer.
processPayment_Optimistic(s0, paymentData) ==
    LET s == emit(s0, "call", "processPayment", paymentData) IN
    IF s.state.paymentIntent = NoIntent \/ s.state.selectedMethod = Null
    THEN s
    ELSE LET result ==
                 [paymentId |-> s.state.paymentIntent.id,
                  paymentMethod |-> s.state.selectedMethod,
                  psp |-> s.state.paymentIntent.recommendedPsp,
                  status |-> "pending", backend_status |-> "undefined"]
             s1 == dispatch(dispatch(s, Act("PROCESS_START", "")),
                            Act("PROCESS_SUCCESS", result))
         IN send(s1, ConfirmPath(s.state.paymentIntent),
                 s.state.paymentIntent, s.state.selectedMethod, "")

processPayment(s0, paymentData) ==
    LET s == emit(s0, "call", "processPayment", paymentData) IN
    IF s.state.paymentIntent = NoIntent \/ s.state.selectedMethod = Null
    THEN s
    ELSE send(dispatch(s, Act("PROCESS_START", "")),
              ConfirmPath(s.state.paymentIntent),
              s.state.paymentIntent, s.state.selectedMethod, "")

\* Mutant: a backend status other than "succeeded" is reported as a failure.
processPaymentResume_StrictStatus(s0, r, outcome) ==
    LET s == receive(s0, r, outcome)
        notSucceeded == Err("PAYMENT_FAILED", "true")
    IN
    IF outcome.kind = "error"
    THEN callback(dispatch(s, Act("PROCESS_ERROR", outcome.error)), "onError", outcome.error)
    ELSE IF outcome.status # "succeeded"
    THEN callback(dispatch(s, Act("PROCESS_ERROR", notSucceeded)), "onError", notSucceeded)
    ELSE LET result ==
                 [paymentId |-> r.intent.id, paymentMethod |-> r.method,
                  psp |-> r.intent.recommendedPsp, status |-> "success",
                  backend_status |-> outcome.status]
             s1 == [s EXCEPT !.hist.confirmed =
                                 @ \cup {[id |-> r.intent.id, path |-> r.kind,
                                          clientSecret |-> r.intent.clientSecret]}]
         IN callback(dispatch(s1, Act("PROCESS_SUCCESS", result)), "onSuccess", result)

\* Mutant: the error of the confirm answer is not looked at.
processPaymentResume_ErrorIgnored(s0, r, outcome) ==
    LET s == receive(s0, r, outcome)
        result ==
            [paymentId |-> r.intent.id, paymentMethod |-> r.method,
             psp |-> r.intent.recommendedPsp,
             status |-> IF outcome.status = "succeeded" THEN "success" ELSE "pending",
             backend_status |-> outcome.status]
        s1 == [s EXCEPT !.hist.confirmed =
                            @ \cup {[id |-> r.intent.id, path |-> r.kind,
                                     clientSecret |-> r.intent.clientSecret]}]
    IN callback(dispatch(s1, Act("PROCESS_SUCCESS", result)), "onSuccess", result)

\* The part of processPayment after the await. r.intent and r.method are the
\* state.paymentIntent and state.selectedMethod the callback closed over.
processPaymentResume(s0, r, outcome) ==
    LET s == receive(s0, r, outcome) IN
    IF outcome.kind = "error"
    THEN callback(dispatch(s, Act("PROCESS_ERROR", outcome.error)), "onError", outcome.error)
    ELSE LET result ==
                 [paymentId |-> r.intent.id,
                  paymentMethod |-> r.method,
                  psp |-> r.intent.recommendedPsp,
                  status |-> IF outcome.status = "succeeded" THEN "success" ELSE "pending",
                  backend_status |-> outcome.status]
             s1 == [s EXCEPT !.hist.confirmed =
                                 @ \cup {[id |-> r.intent.id, path |-> r.kind,
                                          clientSecret |-> r.intent.clientSecret]}]
         IN callback(dispatch(s1, Act("PROCESS_SUCCESS", result)), "onSuccess", result)

handlePspSuccess(s, pspData) == processPayment(s, pspData)

handlePspError(s, error) ==
    callback(dispatch(emit(s, "call", "handlePspError", error), Act("PROCESS_ERROR", error)),
             "onError", error)

reset(s) ==
    LET s1 == [emit(s, "call", "reset", "") EXCEPT
                   !.initializingRef = FALSE,
                   !.hist.called = FALSE, !.hist.createSince = 0,
                   !.hist.released = 0, !.hist.responded = FALSE]
    IN dispatch(s1, Act("RESET", ""))

\* The part of close after the try block.
closeResume(s) == callback(dispatch(s, Act("CLOSE", "")), "onClose", "")

ShouldCancel(st) == st.paymentIntent # NoIntent /\ st.status # "success"

close(s0) ==
    LET s == emit(s0, "call", "close", "") IN
    IF ShouldCancel(s.state)
    THEN send(s, "cancel", s.state.paymentIntent, Null, "")
    ELSE closeResume(s)

\* Mutant: a throwing cancel request is not caught, so close stops there.
cancelResume_Rethrow(s0, r, outcome) ==
    LET s == receive(s0, r, outcome) IN
    IF outcome.kind = "throw"
    THEN s
    ELSE closeResume(IF outcome.kind = "data"
                     THEN [s EXCEPT !.hist.cancelled = @ \cup {r.intent.id}]
                     ELSE s)

\* The cancel request came back: whatever it returned (data, error, or a throw
\* caught by the empty catch block), close goes on to lines 481-482.
cancelResume(s0, r, outcome) ==
    LET s == receive(s0, r, outcome)
        s1 == IF outcome.kind = "data"
              THEN [s EXCEPT !.hist.cancelled = @ \cup {r.intent.id}]
              ELSE s
    IN closeResume(s1)

\* useEffect on [config.initialPaymentIntent, state.paymentIntent?.id], lines 233-240
InitialIntentEffectDue(st) ==
    /\ cfg.initialPaymentIntent # NoIntent
    /\ st.paymentIntent.id # cfg.initialPaymentIntent.id

initialIntentEffect(s) ==
    IF InitialIntentEffectDue(s.state)
    THEN [dispatch(emit(s, "effect", "initialPaymentIntent", ""),
                   Act("INIT_SUCCESS", cfg.initialPaymentIntent))
            EXCEPT !.initializingRef = TRUE]
    ELSE s

-----------------------------------------------------------------------------
(* Inputs *)

Methods == {"card", "mobile_money"}

\* config.paymentMethods (the component's default is ['card', 'mobile_money'])
PaymentMethodsChoices == {<<"card">>, <<"card", "mobile_money">>}

InitialIntentId == MaxRequests + 1

\* config.initialPaymentIntent: absent, or an intent created by the embedding page
InitialIntents ==
    {NoIntent}
    \cup {[id |-> InitialIntentId, clientSecret |-> cs, availableMethods |-> ms,
           recommendedPsp |-> "paystack", provider |-> "paystack",
           availableProviders |-> <<>>] :
            cs \in {"cs"}, ms \in {<<>>, <<"card">>, <<"card", "mobile_money">>}}

NoResponse == [id |-> 0, provider |-> "", client_secret |-> "", available_psps |-> <<>>]

\* Bodies of a 2xx answer to POST /v1/payments/intents
BackendResponses ==
    {[id |-> 0, provider |-> "paystack", client_secret |-> cs, available_psps |-> <<>>] :
        cs \in {"cs", ""}}

\* createPaymentError: {code, message, details} of a non-2xx answer, no `recoverable`
createPaymentError(code) == Err(IF code # "" THEN code ELSE "api_error", "undefined")

\* The catch block of ReevitAPIClient.request: {code, message}, no `recoverable`
requestFailure(err) ==
    CASE err = "AbortError" -> Err("request_timeout", "undefined")
      [] err \in {"Failed to fetch", "NetworkError"} -> Err("network_error", "undefined")
      [] OTHER -> Err("unknown_error", "undefined")

\* Errors ReevitAPIClient.request returns
ApiErrors == {createPaymentError(""), requestFailure("AbortError")}

Outcome(kind, response, error, status) ==
    [kind |-> kind, response |-> response, error |-> error, status |-> status]

CreateOutcomes ==
    {Outcome("data", resp, NoError, "") : resp \in BackendResponses}
    \cup {Outcome("error", NoResponse, e, "") : e \in ApiErrors}
    \cup {Outcome("empty", NoResponse, NoError, ""), Outcome("throw", NoResponse, NoError, "")}

\* PaymentDetailResponse.status of a 2xx confirm answer ("undefined": a body without status)
ConfirmStatuses == {"succeeded", "processing", "undefined"}

ConfirmOutcomes ==
    {Outcome("data", NoResponse, NoError, st) : st \in ConfirmStatuses}
    \cup {Outcome("error", NoResponse, e, "") : e \in {Err("api_error", "undefined")}}

CancelOutcomes ==
    {Outcome(k, NoResponse, NoError, "") : k \in {"data", "error", "throw"}}

PspErrors == {Err("psp_error", "true")}

-----------------------------------------------------------------------------
(* Initial state: useReevit's useReducer / useRef initialisers, lines 216-230 *)

InitState(config) ==
    [initialState EXCEPT
        !.status = IF config.initialPaymentIntent # NoIntent THEN "ready" ELSE "idle",
        !.paymentIntent = config.initialPaymentIntent,
        !.selectedMethod = AutoSelectedMethod(config.initialPaymentIntent)]

InitHist ==
    [called |-> FALSE, createSince |-> 0, released |-> 0, responded |-> FALSE,
     confirmed |-> {}, cancelled |-> {}]

\* useState(autoOpen = false), useState(false), useState(null), useState(null), useRef(null);
\* timers: the setTimeout timers that are armed (each holds the result its
\* callback closed over); mounted: the component is in the tree
InitUi ==
    [isOpen |-> FALSE, showPSPBridge |-> FALSE, momoData |-> "",
     selectedProvider |-> "", successTimeoutRef |-> NoResult,
     timers |-> <<>>, mounted |-> TRUE]

HookConfigs ==
    {[paymentMethods |-> pm, initialPaymentIntent |-> ii] :
        pm \in PaymentMethodsChoices, ii \in InitialIntents}

HookInit ==
    /\ cfg \in HookConfigs
    /\ state = InitState(cfg)
    /\ initializingRef = (cfg.initialPaymentIntent # NoIntent)
    /\ requests = {}
    /\ nextRid = 1
    /\ ui = InitUi
    /\ events = <<>>
    /\ hist = InitHist

-----------------------------------------------------------------------------
(* HookSpec: the hook's operations, called in any order *)

Commit(s) ==
    /\ state' = s.state
    /\ initializingRef' = s.initializingRef
    /\ requests' = s.requests
    /\ nextRid' = s.nextRid
    /\ events' = s.events
    /\ hist' = s.hist

\* Effects run before the next event is handled.
HookSettled == ~InitialIntentEffectDue(state)

CanSend == nextRid <= MaxRequests

Pending(kinds) == {r \in requests : r.kind \in kinds}

Initialize ==
    /\ HookSettled
    /\ initializingRef \/ CanSend
    /\ Commit(initialize(Sys, Null, ""))
    /\ UNCHANGED <<cfg, ui>>

InitResponse ==
    /\ HookSettled
    /\ \E r \in Pending({"create"}), o \in CreateOutcomes :
          Commit(initializeResume(Sys, r, o))
    /\ UNCHANGED <<cfg, ui>>

SelectMethod ==
    /\ HookSettled
    /\ \E m \in Methods : Commit(selectMethod(Sys, m))
    /\ UNCHANGED <<cfg, ui>>

ProcessPayment ==
    /\ HookSettled
    /\ CanSend
    /\ Commit(handlePspSuccess(Sys, ""))
    /\ UNCHANGED <<cfg, ui>>

ConfirmResponse ==
    /\ HookSettled
    /\ \E r \in Pending({"confirm", "confirm-intent"}), o \in ConfirmOutcomes :
          Commit(processPaymentResume(Sys, r, o))
    /\ UNCHANGED <<cfg, ui>>

HandlePspError ==
    /\ HookSettled
    /\ \E e \in PspErrors : Commit(handlePspError(Sys, e))
    /\ UNCHANGED <<cfg, ui>>

Reset ==
    /\ HookSettled
    /\ Commit(reset(Sys))
    /\ UNCHANGED <<cfg, ui>>

Close ==
    /\ HookSettled
    /\ CanSend
    /\ Commit(close(Sys))
    /\ UNCHANGED <<cfg, ui>>

CancelResponse ==
    /\ HookSettled
    /\ \E r \in Pending({"cancel"}), o \in CancelOutcomes :
          Commit(cancelResume(Sys, r, o))
    /\ UNCHANGED <<cfg, ui>>

InitialIntentEffect ==
    /\ InitialIntentEffectDue(state)
    /\ Commit(initialIntentEffect(Sys))
    /\ UNCHANGED <<cfg, ui>>

HookNext ==
    \/ Initialize
    \/ InitResponse
    \/ SelectMethod
    \/ ProcessPayment
    \/ ConfirmResponse
    \/ HandlePspError
    \/ Reset
    \/ Close
    \/ CancelResponse
    \/ InitialIntentEffect

HookSpec == HookInit /\ [][HookNext]_vars

-----------------------------------------------------------------------------
(* The ReevitCheckout component: derived values of a render                  *)
(* (uncontrolled mode: no isOpen / onOpenChange props)                       *)

setIsOpen(s, value) == IF s.ui.mounted THEN [s EXCEPT !.ui.isOpen = value] ELSE s

\* the sequence without its first element equal to x
RECURSIVE RemoveOne(_, _)
RemoveOne(seq, x) ==
    IF seq = <<>> THEN <<>>
    ELSE IF Head(seq) = x THEN Tail(seq)
    ELSE <<Head(seq)>> \o RemoveOne(Tail(seq), x)

\* if (successTimeoutRef.current) { clearTimeout(...); successTimeoutRef.current = null }
clearSuccessTimeout(s) ==
    IF s.ui.successTimeoutRef # NoResult
    THEN [emit(s, "call", "clearTimeout", s.ui.successTimeoutRef)
            EXCEPT !.ui.timers = RemoveOne(@, s.ui.successTimeoutRef),
                   !.ui.successTimeoutRef = NoResult]
    ELSE s

\* a callback prop of the component (onSuccess, onError, onClose) is invoked
prop(s, name, arg) == emit(s, "prop", name, arg)

\* options.onSuccess handed to useReevit
\* Mutant: successDelayMs is ignored, the caller is told at once.
onSuccess_Immediate(s, result) ==
    setIsOpen(prop(clearSuccessTimeout(s), "onSuccess", result), FALSE)

onSuccess(s, result) ==
    LET s1 == clearSuccessTimeout(s) IN
    IF cfg.successDelayMs > 0
    THEN [s1 EXCEPT !.ui.timers = Append(@, result), !.ui.successTimeoutRef = result]
    ELSE setIsOpen(prop(s1, "onSuccess", result), FALSE)

\* options.onClose handed to useReevit
onClose(s) == prop(setIsOpen(s, FALSE), "onClose", "")

\* The hook invoked its options' callbacks from event i on: the component's
\* functions above run (options.onError is the onError prop itself).
RECURSIVE options(_, _)
options(s, i) ==
    IF i > Len(s.events)
    THEN s
    ELSE LET e == s.events[i]
             s1 == IF e.kind # "callback" THEN s
                   ELSE CASE e.name = "onSuccess" -> onSuccess(s, e.arg)
                          [] e.name = "onError" -> prop(s, "onError", e.arg)
                          [] e.name = "onClose" -> onClose(s)
                          [] OTHER -> s
         IN options(s1, i + 1)

NoProvider == [provider |-> "", methods |-> <<>>]

\* Mutant: provider methods are not filtered by the caller's paymentMethods.
providerOptions_Unfiltered(paymentIntent, paymentMethods) ==
    LET available == paymentIntent.availableProviders
        fallbackProvider ==
            IF paymentIntent.recommendedPsp # ""
            THEN <<[provider |-> paymentIntent.recommendedPsp, methods |-> paymentMethods]>>
            ELSE <<>>
        opts == IF Len(available) > 0 THEN available ELSE fallbackProvider
        MapOne(provider) ==
            [provider |-> provider.provider,
             methods |-> IF Len(provider.methods) > 0 THEN provider.methods
                         ELSE paymentMethods]
        HasMethods(provider) == Len(provider.methods) > 0
    IN SelectSeq(MapSeq(opts, MapOne), HasMethods)

providerOptions(paymentIntent, paymentMethods) ==
    LET available == paymentIntent.availableProviders
        fallbackProvider ==
            IF paymentIntent.recommendedPsp # ""
            THEN <<[provider |-> paymentIntent.recommendedPsp, methods |-> paymentMethods]>>
            ELSE <<>>
        opts == IF Len(available) > 0 THEN available ELSE fallbackProvider
        CardOrMomo(method) == method \in {"card", "mobile_money"}
        Offered(method) == method \in SeqToSet(paymentMethods)
        MapOne(provider) ==
            LET methods == IF Len(provider.methods) > 0 THEN provider.methods
                           ELSE paymentMethods
                sanitizedMethods ==
                    IF Includes(ToLowerCase(provider.provider), "hubtel")
                    THEN SelectSeq(methods, CardOrMomo)
                    ELSE methods
            IN [provider |-> provider.provider,
                methods |-> SelectSeq(sanitizedMethods, Offered)]
        HasMethods(provider) == Len(provider.methods) > 0
    IN SelectSeq(MapSeq(opts, MapOne), HasMethods)

ProviderOptions(s) == providerOptions(s.state.paymentIntent, cfg.paymentMethods)

\* providerOptions.find(p => p.provider === selectedProvider) || providerOptions[0]
activeProvider(s) ==
    LET opts == ProviderOptions(s)
        found == {i \in 1..Len(opts) : opts[i].provider = s.ui.selectedProvider}
    IN IF found # {} THEN opts[CHOOSE i \in found : \A j \in found : i <= j]
       ELSE IF Len(opts) > 0 THEN opts[1]
       ELSE NoProvider

availableMethods(s) ==
    IF Len(activeProvider(s).methods) > 0 THEN activeProvider(s).methods
    ELSE cfg.paymentMethods

\* (selectedProvider || paymentIntent?.recommendedPsp || 'paystack').toLowerCase()
pspLower(s) ==
    ToLowerCase(IF s.ui.selectedProvider # "" THEN s.ui.selectedProvider
                ELSE IF s.state.paymentIntent.recommendedPsp # ""
                     THEN s.state.paymentIntent.recommendedPsp
                     ELSE "paystack")

\* momoData?.phone || phone
PhoneKnown(s) == s.ui.momoData # "" \/ cfg.phone # ""

Bridges == {"paystack", "hubtel", "flutterwave", "monnify", "mpesa", "stripe"}

\* What renderContent returns, and whether the modal is in the tree at all.
Screen(s) ==
    IF ~s.ui.mounted THEN "unmounted"
    ELSE IF ~s.ui.isOpen THEN "trigger"
    ELSE IF s.state.status \in {"loading", "processing"} THEN "spinner"
    ELSE IF s.state.status = "success" /\ s.state.result # NoResult THEN "success"
    ELSE IF s.state.status = "failed" /\ s.state.error # NoError
            /\ s.state.error.recoverable # "true" THEN "error"
    ELSE IF s.ui.showPSPBridge
         THEN (IF pspLower(s) \in Bridges THEN "bridge" ELSE "unsupported")
    ELSE IF Len(ProviderOptions(s)) > 1 THEN "providers"
    ELSE "methods"

-----------------------------------------------------------------------------
(* The component's effects; `snap` is the render the effect closed over      *)

initializeWhenOpened(snap, s) ==
    IF snap.ui.isOpen /\ snap.state.status = "idle" /\ cfg.initialPaymentIntent = NoIntent
    THEN initialize(emit(s, "effect", "initializeWhenOpened", ""), Null, "")
    ELSE s

autoSelectProvider(snap, s) ==
    LET opts == ProviderOptions(snap) IN
    IF Len(opts) = 0 THEN s
    ELSE IF snap.ui.selectedProvider # ""
            /\ \E i \in 1..Len(opts) : opts[i].provider = snap.ui.selectedProvider THEN s
    ELSE IF Len(opts) = 1
         THEN [emit(s, "effect", "autoSelectProvider", opts[1].provider)
                 EXCEPT !.ui.selectedProvider = opts[1].provider]
         ELSE s

fixSelectedMethod(snap, s) ==
    IF activeProvider(snap) = NoProvider \/ snap.state.selectedMethod = Null THEN s
    ELSE IF snap.state.selectedMethod \notin SeqToSet(activeProvider(snap).methods)
         THEN selectMethod(emit(s, "effect", "fixSelectedMethod", ""),
                           activeProvider(snap).methods[1])
         ELSE s

\* Mutant: only mobile money advances on its own; card waits for the Continue button.
autoAdvance_MomoOnly(snap, s) ==
    IF snap.ui.isOpen /\ snap.state.selectedMethod = "mobile_money"
       /\ snap.state.paymentIntent # NoIntent /\ ~snap.ui.showPSPBridge
       /\ (~Includes(pspLower(snap), "mpesa") \/ PhoneKnown(snap))
    THEN [emit(s, "effect", "autoAdvance", snap.state.selectedMethod)
            EXCEPT !.ui.showPSPBridge = TRUE]
    ELSE s

\* Mutant: mobile money advances whether or not the provider needs a phone number.
autoAdvance_NoPhoneCheck(snap, s) ==
    IF snap.ui.isOpen /\ snap.state.selectedMethod \in {"card", "mobile_money"}
       /\ snap.state.paymentIntent # NoIntent /\ ~snap.ui.showPSPBridge
    THEN [emit(s, "effect", "autoAdvance", snap.state.selectedMethod)
            EXCEPT !.ui.showPSPBridge = TRUE]
    ELSE s

autoAdvance(snap, s) ==
    IF snap.ui.isOpen /\ snap.state.selectedMethod # Null
       /\ snap.state.paymentIntent # NoIntent /\ ~snap.ui.showPSPBridge
    THEN LET needsPhone == Includes(pspLower(snap), "mpesa")
             shown == [emit(s, "effect", "autoAdvance", snap.state.selectedMethod)
                         EXCEPT !.ui.showPSPBridge = TRUE]
         IN IF snap.state.selectedMethod = "card" THEN shown
            ELSE IF snap.state.selectedMethod = "mobile_money"
                 THEN (IF ~needsPhone \/ PhoneKnown(snap) THEN shown ELSE s)
                 ELSE s
    ELSE s

\* All effects of one commit, in the order the component declares them.
effects(s) ==
    IF ~s.ui.mounted THEN s
    ELSE autoAdvance(s,
           fixSelectedMethod(s,
             autoSelectProvider(s,
               initializeWhenOpened(s, initialIntentEffect(s)))))

-----------------------------------------------------------------------------
(* The component's handlers *)

handler(s, name, arg) == emit(s, "handler", name, arg)

handleOpen(s) ==
    [handler(s, "handleOpen", "") EXCEPT
        !.ui.isOpen = TRUE, !.ui.showPSPBridge = FALSE,
        !.ui.momoData = "", !.ui.selectedProvider = ""]

\* Mutant: closing leaves a pending success timer armed.
handleClose_KeepsTimer(s0) ==
    LET s == handler(s0, "handleClose", "")
        s1 == options(close(s), 1)
    IN [s1 EXCEPT !.ui.isOpen = FALSE, !.ui.showPSPBridge = FALSE,
                  !.ui.momoData = "", !.ui.selectedProvider = ""]

handleClose(s0) ==
    LET s == clearSuccessTimeout(handler(s0, "handleClose", ""))
        s1 == options(close(s), 1)
    IN [s1 EXCEPT !.ui.isOpen = FALSE, !.ui.showPSPBridge = FALSE,
                  !.ui.momoData = "", !.ui.selectedProvider = ""]

handleMethodSelect(s, method) ==
    selectMethod(handler(s, "handleMethodSelect", method), method)

\* Mutant: no toggle; selecting the selected provider re-initializes like any other.
handleProviderSelect_NoToggle(s0, provider) ==
    LET s == handler(s0, "handleProviderSelect", provider)
        s1 == reset([s EXCEPT !.ui.selectedProvider = provider])
        s2 == [s1 EXCEPT !.ui.showPSPBridge = FALSE, !.ui.momoData = ""]
    IN initialize(s2, IF Len(cfg.paymentMethods) > 0 THEN cfg.paymentMethods[1] ELSE Null,
                  provider)

handleProviderSelect(s0, provider) ==
    LET s == handler(s0, "handleProviderSelect", provider) IN
    IF provider = s.ui.selectedProvider
    THEN [reset([s EXCEPT !.ui.selectedProvider = ""])
            EXCEPT !.ui.showPSPBridge = FALSE, !.ui.momoData = ""]
    ELSE LET opts == ProviderOptions(s)
             found == {i \in 1..Len(opts) : opts[i].provider = provider}
             providerMethods ==
                 IF found # {} THEN opts[CHOOSE i \in found : \A j \in found : i <= j].methods
                 ELSE cfg.paymentMethods
             methodForInit ==
                 IF s.state.selectedMethod # Null
                    /\ s.state.selectedMethod \in SeqToSet(providerMethods)
                 THEN s.state.selectedMethod
                 ELSE IF Len(providerMethods) > 0 THEN providerMethods[1]
                      ELSE cfg.paymentMethods[1]
             s1 == reset([s EXCEPT !.ui.selectedProvider = provider])
             s2 == [s1 EXCEPT !.ui.showPSPBridge = FALSE, !.ui.momoData = ""]
         IN initialize(s2, methodForInit, provider)

handleContinue(s0) ==
    LET s == handler(s0, "handleContinue", "")
        needsPhone == Includes(pspLower(s), "mpesa")
    IN IF s.state.selectedMethod = Null THEN s
       ELSE IF s.state.selectedMethod = "card" THEN [s EXCEPT !.ui.showPSPBridge = TRUE]
       ELSE IF s.state.selectedMethod = "mobile_money" /\ (~needsPhone \/ PhoneKnown(s))
            THEN [s EXCEPT !.ui.showPSPBridge = TRUE]
            ELSE s

handleMomoSubmit(s, data) ==
    [handler(s, "handleMomoSubmit", data) EXCEPT
        !.ui.momoData = data, !.ui.showPSPBridge = TRUE]

handlePSPSuccess(s, pspResult) ==
    processPayment(handler(s, "handlePSPSuccess", pspResult), pspResult)

handlePSPError(s, error) ==
    prop([handler(s, "handlePSPError", error) EXCEPT !.ui.showPSPBridge = FALSE],
         "onError", error)

handlePSPClose(s) == [handler(s, "handlePSPClose", "") EXCEPT !.ui.showPSPBridge = FALSE]

handleBack(s) ==
    [reset(handler(s, "handleBack", "")) EXCEPT
        !.ui.momoData = "", !.ui.showPSPBridge = FALSE]

\* MobileMoneyForm's Cancel on the method list: onCancel={() => selectMethod(null)}
momoCancel(s) == selectMethod(handler(s, "onCancel", ""), Null)

\* the setTimeout callback armed by options.onSuccess: timer i fires
successTimeout(s0, i) ==
    LET s == handler(s0, "successTimeout", s0.ui.timers[i]) IN
    [setIsOpen(prop(s, "onSuccess", s0.ui.timers[i]), FALSE)
        EXCEPT !.ui.successTimeoutRef = NoResult,
               !.ui.timers = SubSeq(@, 1, i - 1) \o SubSeq(@, i + 1, Len(@))]

\* the cleanup of the mount effect: the component leaves the tree
unmount(s) ==
    [clearSuccessTimeout(emit(s, "effect", "unmount", "")) EXCEPT !.ui.mounted = FALSE]

-----------------------------------------------------------------------------
(* Spec: the component *)

\* available_psps of a create answer: absent, two known providers, or a known
\* provider next to one of no known family
ProviderLists ==
    {<<>>,
     <<[provider |-> "paystack", methods |-> <<"card", "momo">>],
       [provider |-> "mpesa", methods |-> <<"mobile_money">>]>>,
     <<[provider |-> "paystack", methods |-> <<"card">>],
       [provider |-> "newpsp", methods |-> <<"card">>]>>}

\* Bodies of a 2xx answer to POST /v1/payments/intents, with the provider list
CheckoutResponses ==
    BackendResponses
    \cup {[id |-> 0, provider |-> "paystack", client_secret |-> "cs", available_psps |-> l] :
            l \in ProviderLists}
    \cup {[id |-> 0, provider |-> p, client_secret |-> "cs", available_psps |-> <<>>] :
            p \in {"mpesa", "newpsp"}}

CheckoutCreateOutcomes ==
    {Outcome("data", resp, NoError, "") : resp \in CheckoutResponses}
    \cup {Outcome("error", NoResponse, e, "") :
            e \in ApiErrors \cup {requestFailure("Failed to fetch")}}
    \cup {Outcome("empty", NoResponse, NoError, "")}

\* initialPaymentIntent prop: absent, a card-only intent, an intent offering
\* paystack and mpesa, or one offering paystack and hubtel
CheckoutInitialIntents ==
    {NoIntent,
     [id |-> InitialIntentId, clientSecret |-> "cs", availableMethods |-> <<"card">>,
      recommendedPsp |-> "paystack", provider |-> "paystack", availableProviders |-> <<>>],
     [id |-> InitialIntentId, clientSecret |-> "cs",
      availableMethods |-> <<"card", "mobile_money">>, recommendedPsp |-> "paystack",
      provider |-> "paystack",
      availableProviders |->
          <<[provider |-> "paystack", methods |-> <<"card", "mobile_money">>],
            [provider |-> "mpesa", methods |-> <<"mobile_money">>]>>],
     [id |-> InitialIntentId, clientSecret |-> "cs",
      availableMethods |-> <<"card", "mobile_money">>, recommendedPsp |-> "paystack",
      provider |-> "paystack",
      availableProviders |->
          <<[provider |-> "paystack", methods |-> <<"card">>],
            [provider |-> "hubtel", methods |-> <<"card">>]>>]}

\* props: paymentMethods, initialPaymentIntent, phone, successDelayMs (default 5000)
Configs ==
    {[paymentMethods |-> pm, initialPaymentIntent |-> ii, phone |-> ph,
      successDelayMs |-> d] :
        pm \in PaymentMethodsChoices, ii \in CheckoutInitialIntents,
        ph \in {"", "phone"}, d \in {0, 5000}}

Init ==
    /\ cfg \in Configs
    /\ state = InitState(cfg)
    /\ initializingRef = (cfg.initialPaymentIntent # NoIntent)
    /\ requests = {}
    /\ nextRid = 1
    /\ ui = InitUi
    /\ events = <<>>
    /\ hist = InitHist

CommitAll(s) ==
    /\ Commit(s)
    /\ ui' = s.ui
    /\ UNCHANGED cfg

Real(s) == <<s.state, s.initializingRef, s.requests, s.nextRid, s.ui>>

\* No effect has anything left to do: the commit is complete and the next
\* event (a click, a bridge callback, a response, a timer) can be handled.
Settled == Real(effects(Sys)) = Real(Sys)

Fits(s) == s.nextRid <= MaxRequests + 1

Effects ==
    /\ ~Settled
    /\ Fits(effects(Sys))
    /\ CommitAll(effects(Sys))

HandleOpen ==
    /\ Settled
    /\ Screen(Sys) = "trigger"
    /\ CommitAll(handleOpen(Sys))

HandleClose ==
    /\ Settled
    /\ Screen(Sys) \notin {"trigger", "unmounted"}
    /\ Fits(handleClose(Sys))
    /\ CommitAll(handleClose(Sys))

\* the methods the visible PaymentMethodSelector lists
ListedMethods(s) ==
    CASE Screen(s) = "methods" -> SeqToSet(availableMethods(s))
      [] Screen(s) = "providers" ->
            UNION {SeqToSet(ProviderOptions(s)[i].methods) :
                     i \in {j \in 1..Len(ProviderOptions(s)) :
                              ProviderOptions(s)[j].provider = s.ui.selectedProvider}}
      [] OTHER -> {}

\* the MobileMoneyForm is on screen instead of the Continue button
FormShown(s) ==
    /\ Screen(s) \in {"methods", "providers"}
    /\ s.state.selectedMethod = "mobile_money"
    /\ Includes(pspLower(s), "mpesa")
    /\ cfg.phone = ""

ContinueShown(s) ==
    /\ s.state.selectedMethod # Null
    /\ ~FormShown(s)
    /\ \/ Screen(s) = "methods"
       \/ /\ Screen(s) = "providers"
          /\ s.state.selectedMethod \in {"card", "mobile_money"}
          /\ ListedMethods(s) # {}

HandleMethodSelect ==
    /\ Settled
    /\ \E m \in ListedMethods(Sys) : CommitAll(handleMethodSelect(Sys, m))

HandleProviderSelect ==
    /\ Settled
    /\ Screen(Sys) = "providers"
    /\ \E i \in 1..Len(ProviderOptions(Sys)) :
          LET s == handleProviderSelect(Sys, ProviderOptions(Sys)[i].provider) IN
          /\ Fits(s)
          /\ CommitAll(s)

\* "Back to providers" of the expanded provider: onClick={() => onSelect('')}
BackToProviders ==
    /\ Settled
    /\ Screen(Sys) = "providers"
    /\ \E i \in 1..Len(ProviderOptions(Sys)) :
          ProviderOptions(Sys)[i].provider = ui.selectedProvider
    /\ Fits(handleProviderSelect(Sys, ""))
    /\ CommitAll(handleProviderSelect(Sys, ""))

HandleContinue ==
    /\ Settled
    /\ ContinueShown(Sys)
    /\ CommitAll(handleContinue(Sys))

HandleMomoSubmit ==
    /\ Settled
    /\ FormShown(Sys)
    /\ CommitAll(handleMomoSubmit(Sys, "phone"))

MomoCancel ==
    /\ Settled
    /\ FormShown(Sys)
    /\ Screen(Sys) = "methods"
    /\ CommitAll(momoCancel(Sys))

\* MPesaBridge never calls its onSuccess (HubtelBridge.tsx 321-361: "Success
\* will come via webhook or polling on parent component")
HandlePSPSuccess ==
    /\ Settled
    /\ Screen(Sys) = "bridge"
    /\ pspLower(Sys) # "mpesa"
    /\ Fits(handlePSPSuccess(Sys, ""))
    /\ CommitAll(handlePSPSuccess(Sys, ""))

HandlePSPError ==
    /\ Settled
    /\ Screen(Sys) = "bridge"
    /\ \E e \in PspErrors : CommitAll(handlePSPError(Sys, e))

\* MPesaBridge is given no onClose
HandlePSPClose ==
    /\ Settled
    /\ Screen(Sys) = "bridge"
    /\ pspLower(Sys) # "mpesa"
    /\ CommitAll(handlePSPClose(Sys))

HandleBack ==
    /\ Settled
    /\ Screen(Sys) \in {"error", "unsupported"}
    /\ CommitAll(handleBack(Sys))

SuccessTimeout ==
    /\ ui.timers # <<>>
    /\ Settled
    /\ \E i \in 1..Len(ui.timers) : CommitAll(successTimeout(Sys, i))

\* the embedding application removes the checkout from the tree
Unmount ==
    /\ Settled
    /\ ui.mounted
    /\ CommitAll(unmount(Sys))

IntentResponse ==
    /\ Settled
    /\ \E r \in Pending({"create"}), o \in CheckoutCreateOutcomes :
          CommitAll(options(initializeResume(Sys, r, o), 1))

ConfirmationResponse ==
    /\ Settled
    /\ \E r \in Pending({"confirm", "confirm-intent"}), o \in ConfirmOutcomes :
          CommitAll(options(processPaymentResume(Sys, r, o), 1))

CancellationResponse ==
    /\ Settled
    /\ \E r \in Pending({"cancel"}), o \in CancelOutcomes :
          CommitAll(options(cancelResume(Sys, r, o), 1))

Next ==
    \/ Effects
    \/ HandleOpen
    \/ HandleClose
    \/ HandleMethodSelect
    \/ HandleProviderSelect
    \/ BackToProviders
    \/ HandleContinue
    \/ HandleMomoSubmit
    \/ MomoCancel
    \/ HandlePSPSuccess
    \/ HandlePSPError
    \/ HandlePSPClose
    \/ HandleBack
    \/ SuccessTimeout
    \/ Unmount
    \/ IntentResponse
    \/ ConfirmationResponse
    \/ CancellationResponse

Spec == Init /\ [][Next]_vars

-----------------------------------------------------------------------------
(* Reading the observation of the last step *)

EvIdx(kind, name) == {i \in 1..Len(events) : events[i].kind = kind /\ events[i].name = name}

Called(name) == Len(events) > 0 /\ events[1].kind = "call" /\ events[1].name = name
Dispatched(type) == EvIdx("dispatch", type) # {}
Invoked(cb) == EvIdx("callback", cb) # {}
Sent(kind) == EvIdx("request", kind) # {}
Responded(kinds) ==
    Len(events) > 0 /\ events[1].kind = "response" /\ events[1].name \in kinds

ConfirmKinds == {"confirm", "confirm-intent"}

-----------------------------------------------------------------------------
(* Claims about the initialize guard *)

NoInitialIntent == cfg.initialPaymentIntent = NoIntent

\* C1: on a session created without an initial intent, any number of
\* initialize() calls made before a response arrives and without a reset()
\* have sent exactly one create-intent request, and a call after the first
\* dispatches no INIT_START and sends nothing.
C1_RapidInitializeOnce ==
    /\ [](NoInitialIntent /\ hist.called /\ ~hist.responded => hist.createSince = 1)
    /\ [][(NoInitialIntent /\ hist.called /\ ~hist.responded /\ Called("initialize")')
            => (/\ ~Dispatched("INIT_START")'
                /\ ~Sent("create")'
                /\ requests' = requests
                /\ state' = state)]_vars

\* C1 witness: a second initialize() call returned while the first request is in flight.
C1_Witness ==
    /\ NoInitialIntent /\ hist.called /\ ~hist.responded
    /\ Called("initialize") /\ ~Sent("create")
    /\ Cardinality(Pending({"create"})) = 1
    /\ state.status = "loading"

-----------------------------------------------------------------------------
(* Claims about the confirmation hand-off *)

Before(kindA, nameA, kindB, nameB) ==
    \A j \in EvIdx(kindB, nameB) : \E i \in EvIdx(kindA, nameA) : i < j

\* C3: status success is reached only after a confirm request for the intent
\* that processPayment held has returned without error; the request went to
\* confirm-intent when that intent has a client secret and to confirm
\* otherwise; processPayment dispatches PROCESS_START before it sends the
\* request, and PROCESS_SUCCESS is dispatched only in the step that receives
\* the error-free response.
C3_SuccessOnlyAfterConfirm ==
    /\ state.status = "success" =>
          /\ state.result # NoResult
          /\ \E c \in hist.confirmed : c.id = state.result.paymentId
    /\ \A c \in hist.confirmed :
          c.path = IF c.clientSecret # "" THEN "confirm-intent" ELSE "confirm"
    /\ Dispatched("PROCESS_SUCCESS") =>
          Responded(ConfirmKinds) /\ events[1].arg.kind = "data"
    /\ \A k \in ConfirmKinds :
          Sent(k) => Called("processPayment") /\ Before("dispatch", "PROCESS_START", "request", k)

\* C3 witness: success reached through the authenticated confirm path
\* (intent without client secret).
C3_Witness ==
    /\ state.status = "success"
    /\ Dispatched("PROCESS_SUCCESS")
    /\ \E c \in hist.confirmed :
          c.id = state.result.paymentId /\ c.path = "confirm" /\ c.clientSecret = ""

ConfirmAnswered(kind) == Responded(ConfirmKinds) /\ events[1].arg.kind = kind

\* C4: an error-free confirm response whose status is not "succeeded" ends in
\* status success with onSuccess invoked with the result, result.status
\* pending, metadata.backend_status the status returned, and the step stores
\* no error (no error action dispatched, onError not invoked, error unchanged,
\* and null when the session was still processing).
C4_PendingConfirmIsSuccess ==
    /\ [](ConfirmAnswered("data") /\ events[1].arg.status # "succeeded" =>
            /\ state.status = "success"
            /\ state.result.status = "pending"
            /\ state.result.backend_status = events[1].arg.status
            /\ Cardinality(EvIdx("callback", "onSuccess")) = 1
            /\ \A i \in EvIdx("callback", "onSuccess") : events[i].arg = state.result
            /\ ~Dispatched("PROCESS_ERROR") /\ ~Dispatched("INIT_ERROR")
            /\ ~Invoked("onError"))
    /\ [][(ConfirmAnswered("data"))' =>
            /\ state'.error = state.error
            /\ state.status = "processing" => state'.error = NoError]_vars

\* C4 witness: the backend answered "processing" and the session is in success.
C4_Witness ==
    /\ ConfirmAnswered("data") /\ events[1].arg.status = "processing"
    /\ state.status = "success" /\ state.result.backend_status = "processing"
    /\ state.error = NoError

\* C5: a confirm response carrying an error ends in status failed with that
\* error stored and handed to onError; PROCESS_SUCCESS is not dispatched and
\* onSuccess is not invoked.
C5_ConfirmErrorFails ==
    ConfirmAnswered("error") =>
        /\ state.status = "failed"
        /\ state.error = events[1].arg.error
        /\ Cardinality(EvIdx("callback", "onError")) = 1
        /\ \A i \in EvIdx("callback", "onError") : events[i].arg = events[1].arg.error
        /\ ~Dispatched("PROCESS_SUCCESS")
        /\ ~Invoked("onSuccess")

\* C5 witness: a confirm request came back with an API error.
C5_Witness ==
    /\ ConfirmAnswered("error")
    /\ state.status = "failed" /\ state.error.code = "api_error"

-----------------------------------------------------------------------------
(* Claims about reset and close *)

\* C6: reset() in any status yields status ready with selectedMethod, error
\* and result null, and the paymentIntent it had before.
C6_ResetKeepsIntent ==
    [][Called("reset")' =>
          /\ state'.status = "ready"
          /\ state'.selectedMethod = Null
          /\ state'.error = NoError
          /\ state'.result = NoResult
          /\ state'.paymentIntent = state.paymentIntent]_vars

\* C6 witness: reset() after a successful payment: the result is gone, the intent kept.
C6_Witness ==
    /\ Called("reset")
    /\ state.status = "ready" /\ state.result = NoResult
    /\ state.paymentIntent # NoIntent
    /\ \E c \in hist.confirmed : c.id = state.paymentIntent.id

ConfirmedIds == {c.id : c \in hist.confirmed}

\* C7 as stated: close() sends a cancel request exactly when the session holds
\* an intent whose payment has neither succeeded nor been cancelled by an
\* earlier close, and none when there is no intent or the status is success.
C7_CancelOnlyNonTerminal ==
    [][Called("close")' =>
          (Sent("cancel")' <=>
              /\ state.paymentIntent # NoIntent
              /\ state.status # "success"
              /\ state.paymentIntent.id \notin ConfirmedIds
              /\ state.paymentIntent.id \notin hist.cancelled)]_vars

\* C8: whatever the cancel request returns, close() goes on to dispatch CLOSE
\* (status closed) and to invoke onClose exactly once; the failure is not
\* stored as the session error and onError is not invoked.
C8_CloseAlwaysCompletes ==
    /\ [](Responded({"cancel"}) \/ (Called("close") /\ ~Sent("cancel")) =>
            /\ state.status = "closed"
            /\ Cardinality(EvIdx("dispatch", "CLOSE")) = 1
            /\ Cardinality(EvIdx("callback", "onClose")) = 1
            /\ ~Invoked("onError")
            /\ ~Dispatched("PROCESS_ERROR") /\ ~Dispatched("INIT_ERROR"))
    /\ [][Responded({"cancel"})' => state'.error = state.error]_vars

\* C8 witness: the cancel request threw and the session is closed nevertheless.
C8_Witness ==
    /\ Responded({"cancel"}) /\ events[1].arg.kind = "throw"
    /\ state.status = "closed" /\ Invoked("onClose")

-----------------------------------------------------------------------------
(* Claims about receiving an intent *)

\* C9: when an intent is received (INIT_SUCCESS, or initialPaymentIntent at
\* construction) the session stores it with status ready; selectedMethod is
\* the intent's only method if it lists exactly one, and null otherwise.
C9_AutoSelectOnlySingleMethod ==
    LET Stored(intent) ==
            /\ state.status = "ready"
            /\ state.paymentIntent = intent
            /\ Len(intent.availableMethods) = 1 =>
                  state.selectedMethod = intent.availableMethods[1]
            /\ Len(intent.availableMethods) # 1 => state.selectedMethod = Null
    IN /\ \A i \in EvIdx("dispatch", "INIT_SUCCESS") : Stored(events[i].arg)
       /\ (events = <<>> /\ ~NoInitialIntent) => Stored(cfg.initialPaymentIntent)

\* C9 witness: an intent with two methods arrived and no method is selected.
C9_Witness ==
    /\ Dispatched("INIT_SUCCESS")
    /\ Len(state.paymentIntent.availableMethods) = 2
    /\ state.selectedMethod = Null /\ state.status = "ready"

-----------------------------------------------------------------------------
(* Spec: the auto-advance effect *)

Handled(name) == Len(events) > 0 /\ events[1].kind = "handler" /\ events[1].name = name

\* the auto-advance effect acted in the last step, for the given selected method
AutoAdvanced(method) == \E i \in EvIdx("effect", "autoAdvance") : events[i].arg = method

CardReady ==
    ui.isOpen /\ state.paymentIntent # NoIntent /\ state.selectedMethod = "card"

-----------------------------------------------------------------------------
(* Spec: the phone-capture step *)

\* mobile money on a provider that needs a phone number beforehand, none known
PhoneNeeded(s) ==
    /\ s.state.selectedMethod = "mobile_money"
    /\ Includes(pspLower(s), "mpesa")
    /\ ~PhoneKnown(s)

EffectsRan == Len(events) > 0 /\ events[1].kind = "effect"

-----------------------------------------------------------------------------
(* Spec: switching provider *)

\* an intent returned by a create request of this session
Created(intent) == intent # NoIntent /\ intent.id # InitialIntentId

CalledWithin(name) == EvIdx("call", name) # {}

\* C12: selecting a provider other than the selected one calls reset() and then
\* initialize() restricted to that provider, which sends exactly one create
\* request; once that request has succeeded the session's paymentIntent is the
\* returned intent and no effect replaces it, with or without initialPaymentIntent.
C12_SwitchKeepsReturnedIntent ==
    /\ [][(Handled("handleProviderSelect")' /\ events'[1].arg # ui.selectedProvider) =>
            /\ CalledWithin("reset")' /\ CalledWithin("initialize")'
            /\ Cardinality(EvIdx("request", "create"))' = 1
            /\ \E r \in requests' \ requests :
                  r.kind = "create" /\ r.provider = events'[1].arg]_vars
    /\ [][(Responded({"create"})' /\ events'[1].arg.kind = "data") =>
            Created(state'.paymentIntent)]_vars
    /\ [][(Created(state.paymentIntent) /\ EffectsRan') =>
            state'.paymentIntent = state.paymentIntent]_vars

\* C13: with two or more provider options, selecting the provider that is
\* already selected clears selectedProvider and selectedMethod, sends no
\* request, and leaves the provider list on screen with nothing left for the
\* effects to do (no provider is selected again automatically).
C13_ReselectCollapses ==
    [][(Handled("handleProviderSelect")' /\ events'[1].arg = ui.selectedProvider) =>
         /\ Len(ProviderOptions(Sys)) > 1
         /\ ui'.selectedProvider = ""
         /\ state'.selectedMethod = Null
         /\ ~Sent("create")' /\ requests' = requests
         /\ Settled'
         /\ Screen(Sys)' = "providers"
         /\ ProviderOptions(Sys)' = ProviderOptions(Sys)]_vars

C13_Witness ==
    /\ Handled("handleProviderSelect")
    /\ CalledWithin("reset") /\ ~CalledWithin("initialize")
    /\ ui.selectedProvider = "" /\ state.selectedMethod = Null
    /\ Len(ProviderOptions(Sys)) > 1
    /\ Screen(Sys) = "providers"

-----------------------------------------------------------------------------
(* Spec: provider pre-selection *)

OfferedProviders(s) == {ProviderOptions(s)[i].provider : i \in 1..Len(ProviderOptions(s))}

\* C14: once the effects have run, a single remaining provider option is the
\* selected provider; with more than one option no effect selects a provider,
\* and no PSP bridge is on screen while none of the offered providers has been
\* selected by the user.
C14_NoBridgeBeforeProviderChoice ==
    /\ []((Settled /\ Len(ProviderOptions(Sys)) = 1)
            => ui.selectedProvider = ProviderOptions(Sys)[1].provider)
    /\ [][(EffectsRan' /\ Len(ProviderOptions(Sys)) > 1)
            => ui'.selectedProvider = ui.selectedProvider]_vars
    /\ []((Len(ProviderOptions(Sys)) > 1 /\ ui.selectedProvider \notin OfferedProviders(Sys))
            => Screen(Sys) # "bridge")

-----------------------------------------------------------------------------
(* ResolverSpec: the provider resolver (mapAvailableProviders, then          *)
(* providerOptions) applied to bounded intents and method lists              *)

\* Longest available_psps / availableProviders list, longest method list of a provider.
MaxProviders == 2
MaxMethods == 2

SeqsUpTo(S, n) == UNION {[1..k -> S] : k \in 0..n}

\* method names as the backend spells them, and as PaymentMethod values
RawMethods == {"card", "momo", "crypto"}
PaymentMethodValues == {"card", "mobile_money", "bank_transfer"}
ResolverProviderIds == {"paystack", "Hubtel"}

RawProviderLists ==
    SeqsUpTo({[provider |-> p, methods |-> ms] :
                p \in ResolverProviderIds, ms \in SeqsUpTo(RawMethods, MaxMethods)},
             MaxProviders)

IntentProviderLists ==
    SeqsUpTo({[provider |-> p, methods |-> ms] :
                p \in ResolverProviderIds, ms \in SeqsUpTo(PaymentMethodValues, MaxMethods)},
             MaxProviders)

ResolverResponses ==
    {[id |-> 1, provider |-> "paystack", client_secret |-> "cs", available_psps |-> l] :
        l \in RawProviderLists}

ResolverIntents ==
    {[id |-> InitialIntentId, clientSecret |-> "cs", availableMethods |-> <<"card">>,
      recommendedPsp |-> "paystack", provider |-> "paystack", availableProviders |-> l] :
        l \in IntentProviderLists}

ResolverConfigs ==
    {[paymentMethods |-> pm, initialPaymentIntent |-> ii, phone |-> "", successDelayMs |-> 0] :
        pm \in {<<"card">>, <<"card", "mobile_money">>, <<"mobile_money", "bank_transfer">>},
        ii \in {NoIntent} \cup ResolverIntents}

ResolverInit ==
    /\ cfg \in ResolverConfigs
    /\ state = InitState(cfg)
    /\ initializingRef = (cfg.initialPaymentIntent # NoIntent)
    /\ requests = {}
    /\ nextRid = 1
    /\ ui = InitUi
    /\ events = <<>>
    /\ hist = InitHist

\* initialize() got `data`: INIT_SUCCESS with the mapped intent
ReceiveIntent ==
    /\ state.paymentIntent = NoIntent
    /\ \E response \in ResolverResponses :
          state' = reevitReducer(state, Act("INIT_SUCCESS",
                                            mapToPaymentIntent(response, cfg)))
    /\ events' = <<>>
    /\ UNCHANGED <<initializingRef, requests, nextRid, cfg, ui, hist>>

\* the component renders: the providerOptions memo is computed
Render ==
    /\ state.paymentIntent # NoIntent
    /\ events = <<>>
    /\ events' = <<Ev("render", "providerOptions",
                      providerOptions(state.paymentIntent, cfg.paymentMethods))>>
    /\ UNCHANGED <<state, initializingRef, requests, nextRid, cfg, ui, hist>>

ResolverNext ==
    \/ ReceiveIntent
    \/ Render

ResolverSpec == ResolverInit /\ [][ResolverNext]_vars

Rendered == Len(events) = 1 /\ events[1].kind = "render"

\* the provider options of the last render
Options == events[1].arg

Distinct(s) == \A i, j \in 1..Len(s) : s[i] = s[j] => i = j

\* C15: every provider option's methods are among the caller's paymentMethods.
C15_MethodsWithinRequested ==
    Rendered => \A i \in 1..Len(Options) :
                    SeqToSet(Options[i].methods) \subseteq SeqToSet(cfg.paymentMethods)

C15_Witness ==
    /\ Rendered
    /\ Len(Options) > 0
    /\ \E i \in 1..Len(state.paymentIntent.availableProviders) :
          /\ state.paymentIntent.availableProviders[i].methods # <<>>
          /\ ~(SeqToSet(state.paymentIntent.availableProviders[i].methods)
                 \subseteq SeqToSet(cfg.paymentMethods))
          /\ \E j \in 1..Len(Options) :
                Options[j].provider = state.paymentIntent.availableProviders[i].provider

\* the providers the intent lists with an empty method list only
EmptyProviders(intent) ==
    {intent.availableProviders[i].provider : i \in 1..Len(intent.availableProviders)}
    \ {intent.availableProviders[i].provider :
         i \in {j \in 1..Len(intent.availableProviders) :
                  intent.availableProviders[j].methods # <<>>}}

\* C16: a provider that the intent lists with an empty method list is not
\* among the provider options, and every option has at least one method.
C16_EmptyProvidersExcluded ==
    Rendered =>
        /\ \A i \in 1..Len(Options) :
              Options[i].provider \notin EmptyProviders(state.paymentIntent)
        /\ \A i \in 1..Len(Options) : Len(Options[i].methods) > 0

\* C17: no provider identifier occurs twice in the provider options, and no
\* option lists a method twice.
C17_OptionsDeduplicated ==
    Rendered =>
        /\ Distinct([i \in 1..Len(Options) |-> Options[i].provider])
        /\ \A i \in 1..Len(Options) : Distinct(Options[i].methods)

-----------------------------------------------------------------------------
(* Spec: providers of no known family *)

ProviderFamilies ==
    {"paystack", "hubtel", "flutterwave", "monnify", "mpesa", "m-pesa", "stripe"}

KnownFamily(provider) ==
    \E needle \in ProviderFamilies : Includes(ToLowerCase(provider), needle)

\* C18: no PSP bridge is on screen for an intent whose backend provider is of no
\* known family, nor while a provider of no known family is selected; and the
\* "Provider Not Supported" screen is terminal: from it the checkout can only
\* be closed.
C18_UnknownProviderTerminal ==
    /\ []((state.paymentIntent # NoIntent /\ ~KnownFamily(state.paymentIntent.provider))
            => Screen(Sys) # "bridge")
    /\ []((ui.selectedProvider # "" /\ ~KnownFamily(ui.selectedProvider))
            => Screen(Sys) # "bridge")
    /\ [][Screen(Sys) = "unsupported" => Screen(Sys)' \in {"unsupported", "trigger"}]_vars

-----------------------------------------------------------------------------
(* Spec: errors *)

TransportCodes == {"request_timeout", "network_error"}

\* C19: when the create request fails by timeout or connection failure, the
\* session is failed with that error code and error.recoverable = true.
C19_TransportErrorsRecoverable ==
    [][(/\ Responded({"create"})'
        /\ events'[1].arg.kind = "error"
        /\ events'[1].arg.error.code \in TransportCodes) =>
          /\ state'.status = "failed"
          /\ state'.error.code = events'[1].arg.error.code
          /\ state'.error.recoverable = "true"]_vars

PropInvoked(name, arg) ==
    \E i \in EvIdx("prop", name) : events[i].arg = arg

\* C20: when the PSP bridge on screen reports an error, the onError prop is
\* invoked with it and the session records it: status failed, error = the
\* reported error.
C20_BridgeErrorRecorded ==
    [][Handled("handlePSPError")' =>
          /\ PropInvoked("onError", events[1].arg)'
          /\ state'.status = "failed"
          /\ state'.error = events'[1].arg]_vars

-----------------------------------------------------------------------------
(* Spec: nothing is retried without the user *)

\* the last step was the bridge on screen reporting an error or being closed
BridgeEnded == Handled("handlePSPError") \/ Handled("handlePSPClose")

\* C21: after a PSP bridge reported an error or was closed by the user, the
\* effects that run next (no user action in between) do not show a PSP bridge
\* again and send no create-intent request.
C21_NoAutomaticRelaunch ==
    [][(BridgeEnded /\ EffectsRan') =>
          (~ui'.showPSPBridge /\ ~Sent("create")')]_vars

-----------------------------------------------------------------------------
(* Spec: "Try Again" on the failure screen *)

\* the create-intent request failed: status failed and no payment intent
CreateFailed == state.status = "failed" /\ state.paymentIntent = NoIntent

\* C22: when the user presses "Try Again" after a create-intent failure, the
\* initialize transition runs again: either that step sends a create-intent
\* request and sets status loading, or an effect that does so is still due;
\* the session is not left at rest in status ready without a payment intent.
C22_TryAgainReinitializes ==
    [][(CreateFailed /\ Handled("handleBack")') =>
          \/ (Sent("create")' /\ state'.status = "loading")
          \/ (~Settled' /\ effects(Sys)'.state.status = "loading")]_vars

-----------------------------------------------------------------------------
(* BridgeSpec: one mount of HubtelBridge under ReevitCheckout.  Here `cfg`   *)
(* holds the bridge's props and `ui` the bridge's own state                  *)

\* hubtelSessionToken, basicAuth (legacy), autoStart; sdkThrows: CheckoutSdk /
\* openModal throws inside startPayment's try block
BridgeProps ==
    {[hubtelSessionToken |-> t, basicAuth |-> b, autoStart |-> a, sdkThrows |-> x] :
        t \in {"", "intent-id"}, b \in {"", "legacy-auth"}, a \in BOOLEAN, x \in BOOLEAN}

\* useRef(false), useState(''), useState(false); mounted and modalOpen are the
\* React tree and the Hubtel SDK's popup; fetchAuthDue: the fetchAuth effect's
\* dependencies changed since it last ran (true on mount)
InitBridge ==
    [mounted |-> TRUE, initialized |-> FALSE, authValue |-> "", isLoading |-> FALSE,
     modalOpen |-> FALSE, fetchAuthDue |-> TRUE]

InitBridgeHist == [credentials |-> FALSE, sessionFailed |-> FALSE, opened |-> 0]

\* answers of createHubtelSession: basicAuth, a body without basicAuth, an error
SessionOutcomes ==
    {Outcome("data", NoResponse, NoError, "session-auth"),
     Outcome("data", NoResponse, NoError, "")}
    \cup {Outcome("error", NoResponse, e, "") : e \in ApiErrors}

\* a state setter of the bridge; nothing happens once the bridge is unmounted
setBridge(s, field, value) ==
    IF s.ui.mounted THEN [s EXCEPT !.ui[field] = value] ELSE s

\* ReevitCheckout takes the bridge out of the tree: setShowPSPBridge(false) in
\* handlePSPError / handlePSPClose, the processing spinner after handlePSPSuccess
unmountBridge(s) == [s EXCEPT !.ui.mounted = FALSE]

\* the onError / onClose / onSuccess props as ReevitCheckout passes them
bridgeOnError(s, error) == unmountBridge(prop(s, "onError", error))
bridgeOnClose(s) == unmountBridge(prop(s, "onClose", ""))
bridgeOnSuccess(s, result) == unmountBridge(prop(s, "onSuccess", result))

\* fetchAuth up to its await
fetchAuth(s) ==
    IF cfg.hubtelSessionToken # ""
    THEN send(setBridge(s, "isLoading", TRUE), "session", NoIntent, Null, "")
    ELSE IF cfg.basicAuth # "" THEN setBridge(s, "authValue", cfg.basicAuth)
    ELSE s

\* fetchAuth after the await, finally block included
fetchAuthResume(s0, r, outcome) ==
    LET s == receive(s0, r, outcome) IN
    IF outcome.kind = "error" \/ outcome.status = ""
    THEN setBridge(bridgeOnError([s EXCEPT !.hist.sessionFailed = TRUE],
                                 Err("SESSION_ERROR", "true")),
                   "isLoading", FALSE)
    ELSE setBridge(setBridge([s EXCEPT !.hist.credentials = TRUE],
                             "authValue", outcome.status),
                   "isLoading", FALSE)

startPayment(snap, s) ==
    IF snap.ui.isLoading \/ snap.ui.authValue = "" THEN s
    ELSE IF cfg.sdkThrows
         THEN bridgeOnError(emit(s, "call", "startPayment", ""), Err("PSP_ERROR", "true"))
         ELSE [emit(s, "call", "openModal", snap.ui.authValue)
                 EXCEPT !.ui.modalOpen = TRUE, !.hist.opened = @ + 1]

fetchAuthEffect(snap, s) ==
    IF snap.ui.fetchAuthDue
    THEN fetchAuth([s EXCEPT !.ui.fetchAuthDue = FALSE])
    ELSE s

autoStartEffect(snap, s) ==
    IF cfg.autoStart /\ ~s.ui.initialized /\ ~snap.ui.isLoading /\ snap.ui.authValue # ""
    THEN startPayment(snap, [s EXCEPT !.ui.initialized = TRUE])
    ELSE s

\* the bridge's effects after a render, in declaration order
bridgeEffects(s) ==
    IF s.ui.mounted THEN autoStartEffect(s, fetchAuthEffect(s, s)) ELSE s

\* callBacks handed to checkout.openModal
onPaymentSuccess(s) ==
    [bridgeOnSuccess(emit(s, "handler", "onPaymentSuccess", ""), "hubtel")
        EXCEPT !.ui.modalOpen = FALSE]
onPaymentFailure(s) ==
    bridgeOnError(emit(s, "handler", "onPaymentFailure", ""), Err("PAYMENT_FAILED", "true"))
onHubtelClose(s) ==
    [bridgeOnClose(emit(s, "handler", "onClose", "")) EXCEPT !.ui.modalOpen = FALSE]

BridgeInit ==
    /\ cfg \in BridgeProps
    /\ state = initialState
    /\ initializingRef = FALSE
    /\ requests = {}
    /\ nextRid = 1
    /\ ui = InitBridge
    /\ events = <<>>
    /\ hist = InitBridgeHist

BridgeSettled == Real(bridgeEffects(Sys)) = Real(Sys)

BridgeEffects ==
    /\ ~BridgeSettled
    /\ Fits(bridgeEffects(Sys))
    /\ CommitAll(bridgeEffects(Sys))

\* ReevitCheckout renders again while the bridge is mounted: the onError prop
\* is a new arrow function (ReevitCheckout.tsx line 517), a dependency of the
\* fetchAuth effect
ParentRender ==
    /\ BridgeSettled
    /\ ui.mounted
    /\ ~ui.fetchAuthDue
    /\ CanSend
    /\ CommitAll([emit(Sys, "render", "ReevitCheckout", "") EXCEPT !.ui.fetchAuthDue = TRUE])

SessionResponse ==
    /\ BridgeSettled
    /\ \E r \in Pending({"session"}), outcome \in SessionOutcomes :
          CommitAll(fetchAuthResume(Sys, r, outcome))

HubtelPaymentSuccess ==
    /\ BridgeSettled /\ ui.modalOpen
    /\ CommitAll(onPaymentSuccess(Sys))

HubtelPaymentFailure ==
    /\ BridgeSettled /\ ui.modalOpen
    /\ CommitAll(onPaymentFailure(Sys))

HubtelClose ==
    /\ BridgeSettled /\ ui.modalOpen
    /\ CommitAll(onHubtelClose(Sys))

BridgeNext ==
    \/ BridgeEffects
    \/ ParentRender
    \/ SessionResponse
    \/ HubtelPaymentSuccess
    \/ HubtelPaymentFailure
    \/ HubtelClose

BridgeSpec == BridgeInit /\ [][BridgeNext]_vars

SessionMode == cfg.hubtelSessionToken # ""

SessionFailedNow ==
    /\ Responded({"session"})
    /\ (events[1].arg.kind = "error" \/ events[1].arg.status = "")

\* C23: in session mode the Hubtel modal is never opened before a session
\* request has returned credentials; auto-start does nothing while a session
\* fetch is pending; a failed fetch is reported through onError as
\* SESSION_ERROR with recoverable = true, and a mount whose fetch failed never
\* has the modal opened.
C23_NoModalBeforeSession ==
    /\ []((SessionMode /\ hist.opened > 0) => hist.credentials)
    /\ [][(SessionMode /\ Pending({"session"}) # {}) => ~Called("openModal")']_vars
    /\ [](SessionFailedNow => PropInvoked("onError", Err("SESSION_ERROR", "true")))
    /\ []((SessionMode /\ hist.sessionFailed) => hist.opened = 0)

-----------------------------------------------------------------------------
(* Spec / LiveSpec: the success hand-off to the caller *)

\* an armed success timer can fire: ENABLED <<SuccessTimeout>>_vars
TimerDue == ui.timers # <<>> /\ Settled

\* Pending effects run: React runs the effects of every commit, so the
\* commit is settled again and again.  This is WF_vars(Effects) written on
\* states, Effects being enabled exactly while the commit is not settled.
\* An armed timer fires: the timer needs no user action, but closing or
\* unmounting disarms it and a commit whose effects are still due delays it,
\* so the condition is strong fairness of the timer's callback.
LiveSpec ==
    /\ Spec
    /\ []<>Settled
    /\ SF_vars(SuccessTimeout)

\* the step handed a result to the hook's onSuccess option
SuccessReported == EvIdx("callback", "onSuccess") # {}
\* the results the caller's onSuccess prop was invoked with in the last step
OnSuccessCalls == {i \in 1..Len(events) : events[i].kind = "prop" /\ events[i].name = "onSuccess"}
Unmounted == EvIdx("effect", "unmount") # {}
\* the result handed to the onSuccess option in the last step
ReportedResult == events[CHOOSE i \in EvIdx("callback", "onSuccess") : TRUE].arg

-----------------------------------------------------------------------------
(* Spec: the success timer and closing *)

\* the last step cleared a pending success timer
TimerCleared == EvIdx("call", "clearTimeout") # {}

C25_WitnessUnmount == Unmounted /\ TimerCleared /\ ui.timers = <<>>

-----------------------------------------------------------------------------
(* KeySpec: the Idempotency-Key header of the requests the SDK sends.  Here  *)
(* `cfg` is the session config, `ui` the clock (Date.now()) and `requests`   *)
(* the requests sent so far; strings are sequences of UTF-16 code units      *)

\* Number of requests of one run.
MaxCalls == 2

\* 5 * 60 * 1000
BucketMs == 300000

\* values of Date.now(): two in one 5-minute bucket, one in the next
Times == {1, 299999, 300000}

\* values of Math.random().toString(36).substring(2, ...)
RandomStrings == {"k3x9q1", "zz81ab"}

CharCodes(str) ==
    CASE str = "amount" -> <<97, 109, 111, 117, 110, 116>>
      [] str = "currency" -> <<99, 117, 114, 114, 101, 110, 99, 121>>
      [] str = "customer" -> <<99, 117, 115, 116, 111, 109, 101, 114>>
      [] str = "reference" -> <<114, 101, 102, 101, 114, 101, 110, 99, 101>>
      [] str = "method" -> <<109, 101, 116, 104, 111, 100>>
      [] str = "provider" -> <<112, 114, 111, 118, 105, 100, 101, 114>>
      [] str = "publicKey" -> <<112, 117, 98, 108, 105, 99, 75, 101, 121>>
      [] str = "" -> <<>>
      [] str = "GHS" -> <<71, 72, 83>>
      [] str = "a@b.co" -> <<97, 64, 98, 46, 99, 111>>
      [] str = "ref1" -> <<114, 101, 102, 49>>
      [] str = "card" -> <<99, 97, 114, 100>>
      [] str = "paystack" -> <<112, 97, 121, 115, 116, 97, 99, 107>>
      [] str = "pk_test" -> <<112, 107, 95, 116, 101, 115, 116>>
      [] str = "reevit_" -> <<114, 101, 101, 118, 105, 116, 95>>
      [] str = "_" -> <<95>>
      [] str = "k3x9q1" -> <<107, 51, 120, 57, 113, 49>>
      [] str = "zz81ab" -> <<122, 122, 56, 49, 97, 98>>
      [] str = "caller-key" -> <<99, 97, 108, 108, 101, 114, 45, 107, 101, 121>>

DigitCode(d) == IF d < 10 THEN 48 + d ELSE 87 + d

\* Number.prototype.toString(radix) of a non-negative integer
RECURSIVE toString(_, _)
toString(n, radix) ==
    IF n < radix THEN <<DigitCode(n)>>
    ELSE toString(n \div radix, radix) \o <<DigitCode(n % radix)>>

Num(n) == [t |-> "number", v |-> n]
Str(chars) == [t |-> "string", v |-> chars]

\* JSON.stringify of a number or of a string without characters to escape
JSONstringify(value) ==
    IF value.t = "number" THEN toString(value.v, 10)
    ELSE <<34>> \o value.v \o <<34>>

\* a < b as Array.prototype.sort compares strings: by code units
RECURSIVE StrLess(_, _)
StrLess(a, b) ==
    IF b = <<>> THEN FALSE
    ELSE IF a = <<>> THEN TRUE
    ELSE IF Head(a) # Head(b) THEN Head(a) < Head(b)
    ELSE StrLess(Tail(a), Tail(b))

RECURSIVE InsertSorted(_, _)
InsertSorted(sorted, p) ==
    IF sorted = <<>> THEN <<p>>
    ELSE IF StrLess(p.key, Head(sorted).key) THEN <<p>> \o sorted
    ELSE <<Head(sorted)>> \o InsertSorted(Tail(sorted), p)

\* params in the order Object.keys(params).sort() visits them
RECURSIVE SortedParams(_)
SortedParams(params) ==
    IF params = <<>> THEN <<>>
    ELSE InsertSorted(SortedParams(Tail(params)), Head(params))

\* sortedKeys.map(key => `${key}:${JSON.stringify(params[key])}`).join('|')
RECURSIVE Join(_)
Join(params) ==
    IF params = <<>> THEN <<>>
    ELSE Head(params).key \o <<58>> \o JSONstringify(Head(params).value)
         \o (IF Len(params) > 1 THEN <<124>> ELSE <<>>) \o Join(Tail(params))

\* djb2 on 32 bits, the hash held as two 16-bit halves; one turn of the loop:
\* hash = ((hash << 5) + hash) + charCode; hash = hash & hash
Djb2Step(hash, charCode) ==
    LET low == hash.lo * 33 + charCode
        high == hash.hi * 33 + (low \div 65536)
    IN [hi |-> high % 65536, lo |-> low % 65536]

\* the loop over chars[from..to], evaluated half by half
RECURSIVE Djb2Range(_, _, _, _)
Djb2Range(hash, chars, from, to) ==
    IF from > to THEN hash
    ELSE IF from = to THEN Djb2Step(hash, chars[from])
    ELSE LET mid == (from + to) \div 2
             half == Djb2Range(hash, chars, from, mid)
         IN IF half.lo >= 0 THEN Djb2Range(half, chars, mid + 1, to) ELSE half

Djb2(hash, chars) == Djb2Range(hash, chars, 1, Len(chars))

PadStart4(chars) == [i \in 1..(4 - Len(chars)) |-> 48] \o chars

\* (hash >>> 0).toString(16)
HashHex(hash) ==
    IF hash.hi = 0 THEN toString(hash.lo, 16)
    ELSE toString(hash.hi, 16) \o PadStart4(toString(hash.lo, 16))

\* Mutant: the parameters are hashed in the order they are listed.
generateIdempotencyKey_Unsorted(params, now) ==
    CharCodes("reevit_") \o toString(now \div BucketMs, 10) \o CharCodes("_")
        \o HashHex(Djb2([hi |-> 0, lo |-> 5381], Join(params)))

\* params: the object's entries in insertion order; now: Date.now()
generateIdempotencyKey(params, now) ==
    CharCodes("reevit_") \o toString(now \div BucketMs, 10) \o CharCodes("_")
        \o HashHex(Djb2([hi |-> 0, lo |-> 5381], Join(SortedParams(params))))

\* `${Date.now()}-${Math.random().toString(36).substring(2, 15)}`
randomKey(now, random) == toString(now, 10) \o <<45>> \o CharCodes(random)

\* generateReference(): `reevit_${Date.now().toString(36)}_${random}`
generateReference(now, random) ==
    CharCodes("reevit_") \o toString(now, 36) \o CharCodes("_") \o CharCodes(random)

Entry(key, value) == [key |-> CharCodes(key), value |-> value]

\* an HTTP request as it leaves fetch(): headers["Idempotency-Key"] if set
HttpRequest(method, path, subject, now, key) ==
    [method |-> method, path |-> path, subject |-> subject, now |-> now,
     headers |-> IF key = <<>> THEN {} ELSE {"Idempotency-Key"}, key |-> key]

\* ReevitAPIClient.request up to fetch(); body: the entries of the JSON body
request(method, path, subject, body, idempotencyKey, now, random) ==
    HttpRequest(method, path, subject, now,
        IF method \in {"POST", "PATCH", "PUT"}
        THEN (IF idempotencyKey # <<>> THEN idempotencyKey
              ELSE IF body # <<>> THEN generateIdempotencyKey(body, now)
              ELSE randomKey(now, random))
        ELSE <<>>)

\* the key parameters of createPaymentIntent, as the object literal lists them
KeyParams(config, reference, method, provider) ==
    <<Entry("amount", Num(config.amount)),
      Entry("currency", Str(CharCodes(config.currency))),
      Entry("customer", Str(CharCodes(config.email))),
      Entry("reference", Str(reference)),
      Entry("method", Str(CharCodes(method))),
      Entry("provider", Str(CharCodes(provider))),
      Entry("publicKey", Str(CharCodes(config.publicKey)))>>

Reverse(seq) == [i \in 1..Len(seq) |-> seq[Len(seq) + 1 - i]]

\* the same entries listed in another order
Listed(params, order) == IF order = "reversed" THEN Reverse(params) ELSE params

\* ReevitAPIClient.createPaymentIntent; subject: what identifies the payment
createPaymentIntent(config, reference, method, provider, order, now, random) ==
    LET params == Listed(KeyParams(config, reference, method, provider), order)
        idempotencyKey ==
            IF config.idempotencyKey # "" THEN CharCodes(config.idempotencyKey)
            ELSE generateIdempotencyKey(params, now)
    IN request("POST", "/v1/payments/intents",
               [params |-> KeyParams(config, reference, method, provider)],
               params, idempotencyKey, now, random)

\* the create request of useReevit.initialize
initializeRequest(config, method, provider, now, random) ==
    IF config.paymentLinkCode # ""
    THEN HttpRequest("POST", "/v1/pay/:code/pay",
                     [method |-> method, provider |-> provider], now, randomKey(now, random))
    ELSE LET reference == IF config.reference # "" THEN CharCodes(config.reference)
                          ELSE generateReference(now, random)
         IN [createPaymentIntent(config, reference, method, provider, "listed", now, random)
               EXCEPT !.subject = [method |-> method, provider |-> provider]]

KeyConfigs ==
    {[amount |-> 100, currency |-> "GHS", email |-> "a@b.co", publicKey |-> "pk_test",
      reference |-> ref, idempotencyKey |-> key, paymentLinkCode |-> link] :
        ref \in {"", "ref1"}, key \in {"", "caller-key"}, link \in {"", "link"}}

\* method and preferred provider of a call
KeyChoices == {<<"", "">>, <<"card", "paystack">>}

KeyInit ==
    /\ cfg \in KeyConfigs
    /\ state = initialState
    /\ initializingRef = FALSE
    /\ requests = {}
    /\ nextRid = 1
    /\ ui = [now |-> 1, mounted |-> TRUE]
    /\ events = <<>>
    /\ hist = InitHist

\* the request leaves; `name` is the function that was called
CanCall == Cardinality(requests) < MaxCalls

Sends(name, req) ==
    /\ requests' = requests \cup {[req EXCEPT !.subject = [call |-> name, of |-> @]]}
    /\ UNCHANGED <<state, initializingRef, nextRid, cfg, ui, events, hist>>

CreatePaymentIntent ==
    /\ CanCall
    /\ \E c \in KeyChoices, order \in {"listed", "reversed"}, random \in RandomStrings :
           Sends("createPaymentIntent",
                 createPaymentIntent(cfg, CharCodes(cfg.reference), c[1], c[2], order,
                                     ui.now, random))

ConfirmPaymentIntent ==
    /\ CanCall
    /\ \E random \in RandomStrings :
           Sends("confirmPaymentIntent",
                 request("POST", "/v1/payments/:id/confirm-intent", "", <<>>, <<>>, ui.now, random))

ConfirmPayment ==
    /\ CanCall
    /\ \E random \in RandomStrings :
           Sends("confirmPayment",
                 request("POST", "/v1/payments/:id/confirm", "", <<>>, <<>>, ui.now, random))

CancelPaymentIntent ==
    /\ CanCall
    /\ \E random \in RandomStrings :
           Sends("cancelPaymentIntent",
                 request("POST", "/v1/payments/:id/cancel", "", <<>>, <<>>, ui.now, random))

CreateHubtelSession ==
    /\ CanCall
    /\ \E random \in RandomStrings :
           Sends("createHubtelSession",
                 request("POST", "/v1/payments/hubtel/sessions/:id", "", <<>>, <<>>,
                         ui.now, random))

GetPaymentIntent ==
    /\ CanCall
    /\ \E random \in RandomStrings :
           Sends("getPaymentIntent",
                 request("GET", "/v1/payments/:id", "", <<>>, <<>>, ui.now, random))

InitializeRequest ==
    /\ CanCall
    /\ \E c \in KeyChoices, random \in RandomStrings :
           Sends("initialize", initializeRequest(cfg, c[1], c[2], ui.now, random))

\* time passes
Tick ==
    /\ \E t \in Times : t > ui.now /\ ui' = [ui EXCEPT !.now = t]
    /\ UNCHANGED <<state, initializingRef, requests, nextRid, cfg, events, hist>>

KeyNext ==
    \/ CreatePaymentIntent
    \/ ConfirmPaymentIntent
    \/ ConfirmPayment
    \/ CancelPaymentIntent
    \/ CreateHubtelSession
    \/ GetPaymentIntent
    \/ InitializeRequest
    \/ Tick

KeySpec == KeyInit /\ [][KeyNext]_vars

SameBucket(a, b) == a.now \div BucketMs = b.now \div BucketMs
CallsOf(name) == {r \in requests : r.subject.call = name}

\* C26: two createPaymentIntent calls with identical amount, currency,
\* customer, reference, method, provider and public key in the same 5-minute
\* bucket carry the same Idempotency-Key, whatever the order the parameters
\* are listed in; a caller-supplied idempotencyKey is the key, unchanged.
C26_CreateKeyDeterministic ==
    \A a, b \in CallsOf("createPaymentIntent") :
        /\ "Idempotency-Key" \in a.headers
        /\ cfg.idempotencyKey # "" => a.key = CharCodes(cfg.idempotencyKey)
        /\ (a.subject.of = b.subject.of /\ SameBucket(a, b)) => a.key = b.key

\* two calls at different instants of one bucket; the key is the generated one
C26_Witness ==
    \E a, b \in CallsOf("createPaymentIntent") :
        /\ a.now # b.now /\ SameBucket(a, b)
        /\ a.subject.of = b.subject.of
        /\ cfg.idempotencyKey = ""
        /\ a.key = b.key
        /\ a.key = CharCodes("reevit_") \o <<48>> \o CharCodes("_") \o
                   toString(44280, 16) \o toString(14823, 16)

\* the requests the API client's own methods sent
ClientCalls == {r \in requests : r.subject.call # "initialize"}
Mutating == {"POST", "PATCH", "PUT"}

\* C27: every POST/PATCH/PUT request of the API client carries an
\* Idempotency-Key and a GET request carries none; when the caller supplied no
\* key, the same mutating request (same path, same payment, same body) sent
\* again within one 5-minute bucket carries the same key, the body-less
\* confirm, cancel and session requests included.
C27_MutatingKeysDeterministic ==
    \A a, b \in ClientCalls :
        /\ ("Idempotency-Key" \in a.headers) <=> (a.method \in Mutating)
        /\ (/\ a.method \in Mutating
            /\ cfg.idempotencyKey = ""
            /\ a.subject = b.subject
            /\ SameBucket(a, b)) => a.key = b.key

\* run of initialize(): what it was called with
InitializeCalls == CallsOf("initialize")

\* C28: two initialize() runs with the same session configuration, method and
\* provider and no caller-supplied reference or idempotencyKey, within one
\* 5-minute bucket, send create requests with the same Idempotency-Key, on
\* the API-key path and on the payment-link path.
C28_InitializeKeyDeterministic ==
    \A a, b \in InitializeCalls :
        (/\ cfg.reference = "" /\ cfg.idempotencyKey = ""
         /\ a.subject = b.subject
         /\ SameBucket(a, b)) => a.key = b.key

\* the action the step dispatched last, "" when it dispatched none
LastDispatched ==
    LET idx == {i \in 1..Len(events) : events[i].kind = "dispatch"} IN
    IF idx = {} THEN ""
    ELSE events[CHOOSE i \in idx : \A j \in idx : j <= i].name

ClearingActions == {"INIT_START", "PROCESS_START", "SELECT_METHOD", "RESET"}

\* C29: the stored error is null after INIT_START, PROCESS_START, SELECT_METHOD
\* or RESET, and a non-null error is stored only while status is failed or
\* closed.
C29_ErrorClearedOnNewAttempt ==
    /\ [][LastDispatched' \in ClearingActions => state'.error = NoError]_vars
    /\ [](state.error # NoError => state.status \in {"failed", "closed"})

\* C30: once a successful payment has set result, the result keeps exactly
\* that value until reset(): a step that does not dispatch RESET (a PSP
\* callback, a confirm response, a method selection, a close) leaves it as
\* it is.
C30_ResultStable ==
    [][(state.result # NoResult /\ ~Dispatched("RESET")') => state'.result = state.result]_vars

\* C31: after the Back / Try Again / Go Back handler both selections are
\* cleared (selectedMethod and selectedProvider are null) and the PSP bridge
\* and the entered mobile-money data are dismissed.
C31_BackClearsSelections ==
    [][Handled("handleBack")' =>
        /\ state'.selectedMethod = Null
        /\ ui'.selectedProvider = ""
        /\ ~ui'.showPSPBridge
        /\ ui'.momoData = ""]_vars

\* the intents close() asked the backend to cancel: the cancel request is in
\* flight or was acknowledged
CancelAsked == hist.cancelled \cup {r.intent.id : r \in Pending({"cancel"})}

\* the effects of the current commit send a create-intent request
EffectsSendCreate ==
    LET ev == effects(Sys).events IN
    \E i \in 1..Len(ev) : ev[i].kind = "request" /\ ev[i].name = "create"

\* C32: closing destroys the session: when a closed checkout (opened without
\* an externally supplied intent) is opened again, the effects of that commit
\* send a new create-intent request, and the PSP bridge is never on screen
\* with an intent that close() asked the backend to cancel.
C32_CloseDestroysSession ==
    /\ (Handled("handleOpen") /\ state.status = "closed"
            /\ cfg.initialPaymentIntent = NoIntent) => EffectsSendCreate
    /\ (Screen(Sys) = "bridge" /\ state.paymentIntent # NoIntent)
            => state.paymentIntent.id \notin CancelAsked

-----------------------------------------------------------------------------
(* MPesaSpec: one mount of MPesaBridge (HubtelBridge.tsx 285-450)           *)

\* Bound on the STK push requests of one mount (first push and retries).
MaxPushes == 3

\* who renders the bridge: ReevitCheckout (onError = handlePSPError takes the
\* bridge out of the tree, no onInitiated) or an application of its own
MPesaProps ==
    {[parent |-> p, onInitiated |-> i] :
        p \in {"checkout", "standalone"}, i \in BOOLEAN}

\* useState('idle'), useState(null), useState(null); customer: what the
\* customer did with the prompt on the phone
InitMPesa ==
    [mounted |-> TRUE, state |-> "idle", error |-> "", checkoutRequestId |-> "",
     customer |-> "none"]

InitMPesaHist == [initiated |-> 0, succeeded |-> 0, failed |-> 0]

\* answers of the STK endpoint: ok with the id under one of the three keys or
\* under none, not ok with or without a message, a rejected fetch
StkOutcomes ==
    {[ok |-> TRUE, checkout_request_id |-> a, checkoutRequestId |-> b,
      transaction_id |-> c, message |-> ""] :
        a \in {"", "ws_CO_1"}, b \in {"", "ws_CO_2"}, c \in {"", "TX3"}}
    \cup {[ok |-> FALSE, checkout_request_id |-> "", checkoutRequestId |-> "",
           transaction_id |-> "", message |-> m] : m \in {"", "declined", "throw"}}

\* data.checkout_request_id || data.checkoutRequestId || data.transaction_id
RequestIdOf(data) ==
    IF data.checkout_request_id # "" THEN data.checkout_request_id
    ELSE IF data.checkoutRequestId # "" THEN data.checkoutRequestId
    ELSE data.transaction_id

\* errorData.message || `Request failed: ${response.status}`; a rejected fetch
\* carries its own message
StkErrorMessage(data) ==
    IF data.message = "" THEN "Request failed: 500"
    ELSE IF data.message = "throw" THEN "Failed to fetch"
    ELSE data.message

setMPesa(s, field, value) ==
    IF s.ui.mounted THEN [s EXCEPT !.ui[field] = value] ELSE s

\* the onError prop: ReevitCheckout's handlePSPError hides the bridge
mpesaOnError(s, error) ==
    LET s1 == [prop(s, "onError", error) EXCEPT !.hist.failed = @ + 1] IN
    IF cfg.parent = "checkout" THEN [s1 EXCEPT !.ui.mounted = FALSE] ELSE s1

initiateSTKPush(s0) ==
    LET s  == emit(s0, "call", "initiateSTKPush", "")
        s1 == setMPesa(setMPesa(s, "state", "initiating"), "error", "")
    IN send(s1, "stk", NoIntent, Null, "")

\* the awaited fetch of initiateSTKPush settles
initiateSTKPushResume(s0, r, data) ==
    LET s == receive(s0, r, data) IN
    IF data.ok
    THEN LET requestId == RequestIdOf(data)
             s1 == setMPesa(setMPesa(s, "checkoutRequestId", requestId), "state", "waiting")
             s2 == [s1 EXCEPT !.ui.customer = "prompted", !.hist.initiated = @ + 1]
         IN IF cfg.onInitiated THEN prop(s2, "onInitiated", requestId) ELSE s2
    ELSE LET message == StkErrorMessage(data)
             s1 == setMPesa(setMPesa(s, "error", message), "state", "failed")
         IN mpesaOnError(s1, [code |-> "MPESA_INIT_ERROR", message |-> message])

handleRetry(s0) ==
    LET s == handler(s0, "handleRetry", "") IN
    initiateSTKPush(setMPesa(setMPesa(s, "state", "idle"), "error", ""))

\* the customer answers the prompt; the bridge has no code that hears of it
customerAnswers(s, answer) ==
    [emit(s, "effect", "customer", answer) EXCEPT !.ui.customer = answer]

MPesaInit ==
    /\ cfg \in MPesaProps
    /\ state = initialState
    /\ initializingRef = FALSE
    /\ requests = {}
    /\ nextRid = 1
    /\ ui = InitMPesa
    /\ events = <<>>
    /\ hist = InitMPesaHist

CanPush == nextRid <= MaxPushes

\* "Send Payment Request", shown in state idle
InitiateSTKPush ==
    /\ ui.mounted /\ ui.state = "idle"
    /\ CanPush
    /\ CommitAll(initiateSTKPush(Sys))

STKResponse ==
    /\ requests # {}
    /\ \E r \in requests, data \in StkOutcomes :
          CommitAll(initiateSTKPushResume(Sys, r, data))

\* "Try Again", shown in state failed
HandleRetry ==
    /\ ui.mounted /\ ui.state = "failed"
    /\ CanPush
    /\ CommitAll(handleRetry(Sys))

CustomerAnswers ==
    /\ ui.customer = "prompted"
    /\ \E answer \in {"paid", "declined"} : CommitAll(customerAnswers(Sys, answer))

MPesaNext ==
    \/ InitiateSTKPush
    \/ STKResponse
    \/ HandleRetry
    \/ CustomerAnswers

\* every fetch settles and the customer answers the prompt
MPesaSpec ==
    /\ MPesaInit
    /\ [][MPesaNext]_vars
    /\ WF_vars(STKResponse)
    /\ WF_vars(CustomerAnswers)

\* the payment of an initiated push was confirmed
MPesaConfirmed == ui.customer = "paid" /\ hist.initiated > 0
MPesaOnSuccessCalled == \E i \in 1..Len(events) : events[i].kind = "prop" /\ events[i].name = "onSuccess"

\* C33: in an M-Pesa checkout, after the STK push was initiated and the
\* customer's payment is confirmed, MPesaBridge eventually calls onSuccess.
C33_MPesaReportsSuccess == MPesaConfirmed ~> MPesaOnSuccessCalled

-----------------------------------------------------------------------------
(* PollSpec: one startPolling() call of useMPesaStatusPolling               *)
(* (HubtelBridge.tsx 452-513)                                               *)

\* Largest maxAttempts option the model passes explicitly.
MaxAttempts == 3
\* const { interval = 5000, maxAttempts = 24, ... } = options
DefaultMaxAttempts == 24

\* options.maxAttempts left out
NoMaxAttempts == -1

\* the hook's arguments: checkoutRequestId (null is ""), options.maxAttempts
\* (or none), and whether the caller's callbacks throw
PollOptions ==
    {[checkoutRequestId |-> id, maxAttempts |-> m, callbacksThrow |-> t] :
        id \in {"", "ws_CO_1"}, m \in (0..MaxAttempts) \cup {NoMaxAttempts}, t \in BOOLEAN}

maxAttemptsOf(opts) ==
    IF opts.maxAttempts = NoMaxAttempts THEN DefaultMaxAttempts ELSE opts.maxAttempts

\* `let attempts = 0` of the call; phase: where the call's chain of polls is
InitPoll == [mounted |-> TRUE, attempts |-> 0, phase |-> "idle"]
\* observation: requests sent, calls of each callback, a final status was seen
InitPollHist ==
    [requests |-> 0, calls |-> [onSuccess |-> 0, onFailed |-> 0, onTimeout |-> 0],
     terminal |-> FALSE]

CallsMade == hist.calls.onSuccess + hist.calls.onFailed + hist.calls.onTimeout

\* what one status fetch gives: !response.ok, a rejected fetch or json(), or
\* a body with data.status
PollOutcomes ==
    {"not_ok", "throw", "success", "completed", "failed", "cancelled", "pending"}

\* onSuccess / onFailed / onTimeout of the options
pollCallback(s, name) ==
    [callback(s, name, "") EXCEPT !.hist.calls[name] = @ + 1]

\* attempts++; setTimeout(poll, interval)
pollAgain(s) == [s EXCEPT !.ui.attempts = @ + 1, !.ui.phase = "sleeping"]

\* poll up to its await fetch(...)
poll(s) ==
    IF s.ui.attempts >= maxAttemptsOf(cfg)
    THEN [pollCallback(s, "onTimeout") EXCEPT !.ui.phase = "done"]
    ELSE [send(s, "status", NoIntent, Null, "") EXCEPT
              !.ui.phase = "fetching", !.hist.requests = @ + 1]

\* a callback called inside poll's try block: when it throws, the catch
\* block counts an attempt and polls again
pollReport(s, name) ==
    LET s1 == pollCallback(s, name) IN
    IF cfg.callbacksThrow THEN pollAgain(s1) ELSE [s1 EXCEPT !.ui.phase = "done"]

\* poll after its fetch settled
pollResume(s0, r, outcome) ==
    LET s == receive(s0, r, outcome) IN
    IF outcome \in {"not_ok", "throw", "pending"} THEN pollAgain(s)
    ELSE LET s1 == [s EXCEPT !.hist.terminal = TRUE] IN
         IF outcome \in {"success", "completed"} THEN pollReport(s1, "onSuccess")
         ELSE pollReport(s1, "onFailed")

startPolling(s0) ==
    LET s == emit(s0, "call", "startPolling", cfg.checkoutRequestId) IN
    IF cfg.checkoutRequestId = "" THEN [s EXCEPT !.ui.phase = "returned"]
    ELSE poll(s)

PollInit ==
    /\ cfg \in PollOptions
    /\ state = initialState
    /\ initializingRef = FALSE
    /\ requests = {}
    /\ nextRid = 1
    /\ ui = InitPoll
    /\ events = <<>>
    /\ hist = InitPollHist

StartPolling ==
    /\ ui.phase = "idle"
    /\ CommitAll(startPolling(Sys))

PollResponse ==
    /\ ui.phase = "fetching"
    /\ \E r \in requests, outcome \in PollOutcomes : CommitAll(pollResume(Sys, r, outcome))

\* the setTimeout(poll, interval) callback
PollTimer ==
    /\ ui.phase = "sleeping"
    /\ CommitAll(poll(emit(Sys, "handler", "poll", "")))

PollNext ==
    \/ StartPolling
    \/ PollResponse
    \/ PollTimer

\* every fetch settles and every timer fires
PollSpec ==
    /\ PollInit
    /\ [][PollNext]_vars
    /\ WF_vars(PollResponse)
    /\ WF_vars(PollTimer)

\* C34: a startPolling() call with a checkoutRequestId terminates, performs
\* at most maxAttempts status requests, invokes exactly one of onSuccess,
\* onFailed, onTimeout exactly once, and stops as soon as a success/completed
\* or failed/cancelled status is received; with a null checkoutRequestId it
\* performs no request and invokes no callback.
C34_PollingTerminates ==
    /\ [](hist.requests <= maxAttemptsOf(cfg))
    /\ [](CallsMade <= 1)
    /\ [](ui.phase = "done" => CallsMade = 1)
    /\ [](hist.terminal => ui.phase = "done")
    /\ [](cfg.checkoutRequestId = "" => (hist.requests = 0 /\ CallsMade = 0))
    /\ (ui.phase # "idle") ~> (ui.phase \in {"done", "returned"})

\* the confirm requests answered in the step
ConfirmsSettled == Pending(ConfirmKinds) \ requests'

\* C35: PaymentResult.psp names the PSP that processed the payment: when a
\* bridge reports success, the psp it was rendered for (the selected
\* provider, or the intent's recommended PSP when none is selected) is the
\* recommendedPsp of the intent processPayment confirms, and the result built
\* from the confirm answer carries that value as psp.
C35_ResultPspIsBridgePsp ==
    /\ [][(Handled("handlePSPSuccess")' /\ Dispatched("PROCESS_START")')
            => state.paymentIntent.recommendedPsp = pspLower(Sys)]_vars
    /\ [][(Dispatched("PROCESS_SUCCESS")' /\ ui.mounted)
            => \A r \in ConfirmsSettled : state'.result.psp = r.intent.recommendedPsp]_vars

\* intents the backend created for this session (create request n yields id n)
CreatedIds == 1..MaxRequests

\* C36: concurrent triggers are serialized: never are two create-intent
\* requests of one session in flight together, and the answer to an earlier
\* create request never replaces the intent stored from a newer one, also
\* when reset() is called while a request is in flight and initialize() is
\* called again.
C36_CreatesSerialized ==
    /\ [](Cardinality(Pending({"create"})) <= 1)
    /\ [][(Dispatched("INIT_SUCCESS")' /\ state.paymentIntent.id \in CreatedIds
              /\ state'.paymentIntent.id \in CreatedIds)
            => state'.paymentIntent.id >= state.paymentIntent.id]_vars

\* C37: once close() has set status closed, the status stays closed until
\* reset() or a new initialize() is called: a create or confirm answer that
\* arrives after the close does not move the session to another status.
C37_ClosedStaysClosed ==
    [][(state.status = "closed" /\ Responded({"create"} \cup ConfirmKinds)')
        => state'.status = "closed"]_vars

\* C38: in every reachable state of the checkout, status method_selected
\* implies that selectedMethod is not null, also after the mobile-money
\* phone form is cancelled.
C38_MethodSelectedHasMethod ==
    state.status = "method_selected" => state.selectedMethod # Null

\* C39: a session in status ready, method_selected, processing or success
\* has a payment intent (so reset() after a failed or unfinished
\* initialization never gives ready without one), and no PSP bridge is on
\* screen while paymentIntent is null.
C39_IntentBehindStatus ==
    /\ state.status \in {"ready", "method_selected", "processing", "success"}
          => state.paymentIntent # NoIntent
    /\ Screen(Sys) \in {"bridge", "unsupported"} => state.paymentIntent # NoIntent

\* the last step was a press on "Back to providers"
BackPressed == Handled("handleProviderSelect") /\ events[1].arg = ""

\* C40: pressing "Back to providers" in the provider accordion leaves
\* selectedProvider and selectedMethod cleared, like toggling the active
\* provider off, and sends no create-intent request.
C40_BackToProvidersOnlyCollapses ==
    [][BackPressed' =>
          /\ ui'.selectedProvider = ""
          /\ state'.selectedMethod = Null
          /\ ~Sent("create")']_vars

====
